---- MODULE Spec2Model ----
(***************************************************************************)
(* Model of the Apex debug-log parser (ApexLogParser) and of the analyzer  *)
(* (LogAnalyzer.generateInsights and LogAnalyzer.calculateMetrics).        *)
(*                                                                         *)
(* A line of the log is modelled by the features the parser's substring    *)
(* tests and regular expressions read from it.  Objects (MethodNode) live  *)
(* in a per-parser heap `nodes` and are referred to by their heap index,   *)
(* so that the stack, the root list and the children lists share nodes by  *)
(* reference as they do in the source.                                     *)
(***************************************************************************)
EXTENDS Integers, Sequences, FiniteSets, TLC

\* ------------------------------------------------------------------ bounds
MaxLines == 3        \* longest input text, in lines
MaxOffset == 1       \* largest parenthesized time offset on a line
MaxLimitLines == 2   \* longest input text of limit-summary lines
MaxLimit == 1        \* largest number on a limit-summary line

\* Parser invocations; each one is an ApexLogParser object of its own.
Instances == {1, 2, 3}

\* ------------------------------------------------- optional values (x?: T)
Undefined == << >>
Some(v) == << v >>
IsDefined(o) == o # Undefined
Val(o) == o[1]
\* JavaScript `!x` for x: number | undefined
Falsy(o) == o = Undefined \/ o = Some(0)
\* JavaScript `x || 0` for x: number | undefined
OrZero(o) == IF Falsy(o) THEN 0 ELSE Val(o)

\* ------------------------------------------------------------------- lines
\* The substrings parseLine tests with includes(), in the order it tests them.
MarkerOrder ==
  << "METHOD_ENTRY", "METHOD_EXIT", "CODE_UNIT_STARTED", "CODE_UNIT_FINISHED",
     "SOQL_EXECUTE_BEGIN", "SOQL_EXECUTE_END", "DML_BEGIN", "DML_END",
     "Number of SOQL queries:", "Number of query rows:", "Maximum CPU time:",
     "Maximum heap size:", "Number of DML statements:", "Number of DML rows:" >>

\* The limit label -> the LimitUsage field it sets.
LimitField ==
  [ m \in {MarkerOrder[k] : k \in 9..14} |->
      CASE m = "Number of SOQL queries:" -> "soqlQueries"
        [] m = "Number of query rows:" -> "queryRows"
        [] m = "Maximum CPU time:" -> "cpuTime"
        [] m = "Maximum heap size:" -> "heapSize"
        [] m = "Number of DML statements:" -> "dmlStatements"
        [] m = "Number of DML rows:" -> "dmlRows" ]

Categories ==
  {"soqlQueries", "queryRows", "cpuTime", "heapSize", "dmlStatements", "dmlRows"}

\* A line, by what the parser can read from it:
\*   blank      line.trim() is empty
\*   markers    the marker substrings the line includes
\*   parens     its parenthesized integer tokens "(123)", in order
\*   sig        the text the structured name pattern captures ("" = no match)
\*   lastField  its last pipe-delimited field
\*   query      the text /SELECT[^|]*/i matches, trimmed ("" = no match)
\*   aggr       the number after "Aggregations:", if any
\*   op         the text after "Op:" in a DML_BEGIN line ("" = no match)
\*   rows       the number after "Rows:", if any
\*   outOf      <<used, total>> of "<label>: <used> out of <total>", if any
Line(markers, parens) ==
  [ blank |-> FALSE, markers |-> markers, parens |-> parens, sig |-> "",
    lastField |-> "", query |-> "", aggr |-> Undefined, op |-> "",
    rows |-> Undefined, outOf |-> Undefined ]

BlankLine == [ Line({}, << >>) EXCEPT !.blank = TRUE ]

\* (a variant that lets the last marker of the chain win)
RECURSIVE LastMarker(_, _)
LastMarker(line, k) ==
  IF k > Len(MarkerOrder) THEN "NONE"
  ELSE LET later == LastMarker(line, k + 1)
       IN IF later # "NONE" THEN later
          ELSE IF MarkerOrder[k] \in line.markers THEN MarkerOrder[k]
          ELSE "NONE"

\* First marker, in the order of the else-if chain, that the line includes;
\* "NONE" when it includes none.
RECURSIVE FirstMarker(_, _)
FirstMarker(line, k) ==
  IF k > Len(MarkerOrder) THEN "NONE"
  ELSE IF MarkerOrder[k] \in line.markers THEN MarkerOrder[k]
  ELSE FirstMarker(line, k + 1)

LineKind(line) == FirstMarker(line, 1)

extractDuration(line) ==
  IF line.parens # << >> THEN Head(line.parens) ELSE 0

extractMethodName(line) ==
  IF line.sig # "" THEN line.sig
  ELSE IF line.lastField # "" THEN line.lastField
  ELSE "Unknown Method"

extractCodeUnitName(line) ==
  IF line.sig # "" THEN line.sig
  ELSE IF line.lastField # "" THEN line.lastField
  ELSE "Unknown Code Unit"

extractSoqlQuery(line) == IF line.query # "" THEN line.query ELSE "Unknown Query"

extractDmlOperation(line) == IF line.op # "" THEN line.op ELSE "Unknown DML"

\* ------------------------------------------------------------- input texts
OffsetTokens == {<< >>} \cup {<< n >> : n \in 0..MaxOffset}

SeqsUpTo(S, n) == UNION {[1..k -> S] : k \in 0..n}

\* Entry/exit lines of the two hierarchical kinds, and blank lines.
TreeLines ==
  {[Line({m}, p) EXCEPT !.sig = IF m = "METHOD_ENTRY" THEN "Foo.bar" ELSE "",
                        !.lastField = IF m = "CODE_UNIT_STARTED" THEN "trigger" ELSE ""] :
      m \in {"METHOD_ENTRY", "METHOD_EXIT", "CODE_UNIT_STARTED", "CODE_UNIT_FINISHED"},
      p \in OffsetTokens}
  \cup {BlankLine}

TreeTexts == SeqsUpTo(TreeLines, MaxLines)

\* Begin/end lines of the two non-hierarchical kinds; an end line carries a
\* "Rows:" number or none.
OpLines ==
  {[Line({"SOQL_EXECUTE_BEGIN"}, << n >>) EXCEPT !.query = "SELECT Id FROM X",
                                                !.aggr = Some(0)] : n \in 0..MaxOffset}
  \cup {[Line({"DML_BEGIN"}, << n >>) EXCEPT !.op = "Insert"] : n \in 0..MaxOffset}
  \cup {[Line({m}, << n >>) EXCEPT !.rows = r] :
          m \in {"SOQL_EXECUTE_END", "DML_END"}, n \in 0..MaxOffset,
          r \in {Undefined, Some(2)}}

OpTexts == SeqsUpTo(OpLines, MaxLines)

\* Limit-summary lines "<label>: <used> out of <total>" of the six categories,
\* one line that has a label but not the "out of" pattern, and one line with
\* no marker at all.
LimitLines ==
  {[Line({m}, << >>) EXCEPT !.outOf = Some(<< u, t >>)] :
      m \in DOMAIN LimitField, u \in 0..MaxLimit, t \in {0, MaxLimit}}
  \cup {Line({"Maximum CPU time:"}, << >>), Line({}, << 1 >>)}

LimitTexts == SeqsUpTo(LimitLines, MaxLimitLines)

\* ------------------------------------------------------------------- state
VARIABLES
  text,            \* the logText the invocations are constructed with (one text,
                   \* or one per invocation where the invocations differ in it)
  lines,           \* this.lines
  pos,             \* lines already handed to parseLine by the forEach
  pc,              \* "parse" | "done" (parse() has returned)
  nodes,           \* the MethodNode objects created, by heap index
  methodStack,     \* this.methodStack (heap indices)
  rootNodes,       \* this.rootNodes (heap indices)
  timeline,        \* this.timeline
  soqlQueries,     \* this.soqlQueries
  dmlOperations,   \* this.dmlOperations
  limits,          \* this.limits
  nodeIdCounter,   \* this.nodeIdCounter
  metrics,         \* what LogAnalyzer.calculateMetrics returned, once it ran
  insights,        \* what LogAnalyzer.generateInsights returned, once it ran
  log              \* the Log the LogAnalyzer was constructed with

vars ==
  << text, lines, pos, pc, nodes, methodStack, rootNodes, timeline,
     soqlQueries, dmlOperations, limits, nodeIdCounter, metrics, insights, log >>

\* constructor: logText.split('\n').filter(line => line.trim())
SplitLines(t) == SelectSeq(t, LAMBDA l : ~l.blank)

\* The object whose nodeIdCounter field invocation i reads and writes:
\* an instance field, so its own.  (CounterOwnerStatic: a counter shared by
\* all invocations.)
CounterOwnerStatic(i) == 1

CounterOwner(i) == i

\* The Log of the runs in which the status plays no part.
DefaultLog == [status |-> Some("Success"), Status |-> Undefined]

\* The field initialisers of the parser objects, and an analyzer that has
\* not computed anything yet.
FieldInitialisers ==
  /\ pos = [i \in Instances |-> 0]
  /\ pc = [i \in Instances |-> "parse"]
  /\ nodes = [i \in Instances |-> << >>]
  /\ methodStack = [i \in Instances |-> << >>]
  /\ rootNodes = [i \in Instances |-> << >>]
  /\ timeline = [i \in Instances |-> << >>]
  /\ soqlQueries = [i \in Instances |-> << >>]
  /\ dmlOperations = [i \in Instances |-> << >>]
  /\ limits = [i \in Instances |-> [c \in Categories |-> Undefined]]
  /\ nodeIdCounter = [i \in Instances |-> 0]
  /\ metrics = Undefined
  /\ insights = Undefined

InitAnalyzer(Texts, Logs) ==
  /\ text \in Texts
  /\ log \in Logs
  /\ lines = [i \in Instances |-> SplitLines(text)]
  /\ FieldInitialisers

InitWith(Texts) == InitAnalyzer(Texts, {DefaultLog})

\* The line the forEach hands to parseLine next.
CurrentLine(i) == lines[i][pos[i] + 1]

\* parseLine is being called on a line of the given kind.
AtLine(i, kind) ==
  /\ pc[i] = "parse"
  /\ pos[i] < Len(lines[i])
  /\ LineKind(CurrentLine(i)) = kind

\* ------------------------------------------------------- parseLine: the tree
Top(i) == methodStack[i][Len(methodStack[i])]

\* (a variant that subtracts the other way round)
StampEndReversed(node, end) ==
  [node EXCEPT !.endTime = Some(end), !.duration = Some(node.startTime - end)]

\* node.endTime = end; node.duration = node.endTime - node.startTime
StampEnd(node, end) ==
  [node EXCEPT !.endTime = Some(end), !.duration = Some(end - node.startTime)]

\* (a variant that puts the new node in front of its siblings)
PushNodeInFront(i, node) ==
  LET ref == Len(nodes[i]) + 1 IN
  /\ IF Len(methodStack[i]) > 0
       THEN /\ nodes' = [nodes EXCEPT ![i] =
                  Append([@ EXCEPT ![Top(i)].children = << ref >> \o @],
                         [node EXCEPT !.parent = Some(Top(i))])]
            /\ UNCHANGED rootNodes
       ELSE /\ nodes' = [nodes EXCEPT ![i] = Append(@, node)]
            /\ rootNodes' = [rootNodes EXCEPT ![i] = << ref >> \o @]
  /\ methodStack' = [methodStack EXCEPT ![i] = Append(@, ref)]

\* The new node becomes the last child of the stack top, or the last root when
\* the stack is empty, and is pushed on the stack.
PushNode(i, node) ==
  LET ref == Len(nodes[i]) + 1 IN
  /\ IF Len(methodStack[i]) > 0
       THEN /\ nodes' = [nodes EXCEPT ![i] =
                  Append([@ EXCEPT ![Top(i)].children = Append(@, ref)],
                         [node EXCEPT !.parent = Some(Top(i))])]
            /\ UNCHANGED rootNodes
       ELSE /\ nodes' = [nodes EXCEPT ![i] = Append(@, node)]
            /\ rootNodes' = [rootNodes EXCEPT ![i] = Append(@, ref)]
  /\ methodStack' = [methodStack EXCEPT ![i] = Append(@, ref)]

\* A MethodNode as the entry branches build it; the id takes and advances
\* the counter.
NewNode(i, prefix, name, type) ==
  [ id |-> << prefix, nodeIdCounter[CounterOwner(i)] >>,
    name |-> << name >>,
    startTime |-> extractDuration(CurrentLine(i)),
    endTime |-> Undefined,
    duration |-> Undefined,
    children |-> << >>,
    parent |-> Undefined,
    depth |-> Len(methodStack[i]),
    type |-> type ]

\* The TimelineEvent an exit branch pushes for the node it closed.
NodeEvent(node, type) ==
  [ id |-> node.id, name |-> node.name, startTime |-> node.startTime,
    endTime |-> Val(node.endTime), duration |-> Val(node.duration),
    type |-> type, depth |-> node.depth, details |-> Undefined ]

\* (PopNodeUnguarded: an exit branch that records an event for the line even
\* when there is no node to close)
PopNodeUnguarded(i, type) ==
  IF Len(methodStack[i]) > 0
    THEN LET ref == Top(i)
             closed == StampEnd(nodes[i][ref], extractDuration(CurrentLine(i)))
         IN /\ methodStack' = [methodStack EXCEPT ![i] = SubSeq(@, 1, Len(@) - 1)]
            /\ nodes' = [nodes EXCEPT ![i][ref] = closed]
            /\ timeline' = [timeline EXCEPT ![i] = Append(@, NodeEvent(closed, type))]
    ELSE /\ timeline' = [timeline EXCEPT ![i] = Append(@,
               [ id |-> << "none", 0 >>, name |-> << "" >>, startTime |-> 0,
                 endTime |-> extractDuration(CurrentLine(i)),
                 duration |-> extractDuration(CurrentLine(i)),
                 type |-> type, depth |-> 0, details |-> Undefined ])]
         /\ UNCHANGED << methodStack, nodes >>

\* (a variant that puts the event in front of the timeline)
PopNodeEventInFront(i, type) ==
  IF Len(methodStack[i]) > 0
    THEN LET ref == Top(i)
             closed == StampEnd(nodes[i][ref], extractDuration(CurrentLine(i)))
         IN /\ methodStack' = [methodStack EXCEPT ![i] = SubSeq(@, 1, Len(@) - 1)]
            /\ nodes' = [nodes EXCEPT ![i][ref] = closed]
            /\ timeline' = [timeline EXCEPT ![i] = << NodeEvent(closed, type) >> \o @]
    ELSE UNCHANGED << methodStack, nodes, timeline >>

\* The body of an exit branch: nothing when the stack is empty, else pop the
\* top, stamp it with the line's offset and push its TimelineEvent.
PopNode(i, type) ==
  IF Len(methodStack[i]) > 0
    THEN LET ref == Top(i)
             closed == StampEnd(nodes[i][ref], extractDuration(CurrentLine(i)))
         IN /\ methodStack' = [methodStack EXCEPT ![i] = SubSeq(@, 1, Len(@) - 1)]
            /\ nodes' = [nodes EXCEPT ![i][ref] = closed]
            /\ timeline' = [timeline EXCEPT ![i] = Append(@, NodeEvent(closed, type))]
    ELSE UNCHANGED << methodStack, nodes, timeline >>

Advance(i) == pos' = [pos EXCEPT ![i] = @ + 1]

MethodEntry(i) ==
  /\ AtLine(i, "METHOD_ENTRY")
  /\ PushNode(i, NewNode(i, "method", extractMethodName(CurrentLine(i)), "METHOD"))
  /\ nodeIdCounter' = [nodeIdCounter EXCEPT ![CounterOwner(i)] = @ + 1]
  /\ Advance(i)
  /\ UNCHANGED << text, lines, pc, timeline, soqlQueries, dmlOperations, limits, metrics,
                  insights, log >>

MethodExit(i) ==
  /\ AtLine(i, "METHOD_EXIT")
  /\ PopNode(i, "METHOD")
  /\ Advance(i)
  /\ UNCHANGED << text, lines, pc, rootNodes, soqlQueries, dmlOperations, limits,
                  nodeIdCounter, metrics,
                  insights, log >>

CodeUnitStarted(i) ==
  /\ AtLine(i, "CODE_UNIT_STARTED")
  /\ PushNode(i, NewNode(i, "unit", extractCodeUnitName(CurrentLine(i)), "CODE_UNIT"))
  /\ nodeIdCounter' = [nodeIdCounter EXCEPT ![CounterOwner(i)] = @ + 1]
  /\ Advance(i)
  /\ UNCHANGED << text, lines, pc, timeline, soqlQueries, dmlOperations, limits, metrics,
                  insights, log >>

CodeUnitFinished(i) ==
  /\ AtLine(i, "CODE_UNIT_FINISHED")
  /\ PopNode(i, "CODE_UNIT")
  /\ Advance(i)
  /\ UNCHANGED << text, lines, pc, rootNodes, soqlQueries, dmlOperations, limits,
                  nodeIdCounter, metrics,
                  insights, log >>

\* ------------------------------------------- parseLine: queries, mutations
Last(q) == q[Len(q)]

\* (a variant whose id does not read the timeline length)
SoqlEventFixedId(i, q, rows) ==
  [ id |-> << "soql", 0 >>, name |-> << q.query, "..." >>,
    startTime |-> q.startTime, endTime |-> Val(q.endTime),
    duration |-> Val(q.duration), type |-> "SOQL",
    depth |-> Len(methodStack[i]), details |-> Some(OrZero(rows)) ]

\* name: lastQuery.query.substring(0, 50) + '...' (the model's query texts are
\* shorter than 50 characters); details: `Rows: ${rows || 0}`
SoqlEvent(i, q, rows) ==
  [ id |-> << "soql", Len(timeline[i]) >>, name |-> << q.query, "..." >>,
    startTime |-> q.startTime, endTime |-> Val(q.endTime),
    duration |-> Val(q.duration), type |-> "SOQL",
    depth |-> Len(methodStack[i]), details |-> Some(OrZero(rows)) ]

DmlEvent(i, d, rows) ==
  [ id |-> << "dml", Len(timeline[i]) >>, name |-> << d.operation >>,
    startTime |-> d.startTime, endTime |-> Val(d.endTime),
    duration |-> Val(d.endTime) - d.startTime, type |-> "DML",
    depth |-> Len(methodStack[i]), details |-> Some(OrZero(rows)) ]

\* if (!lastQuery.endTime): whether the end branch treats the record as pending
\* (PendingInverted: the test without its negation)
PendingInverted(rec) == ~Falsy(rec.endTime)

Pending(rec) == Falsy(rec.endTime)

SoqlExecuteBegin(i) ==
  /\ AtLine(i, "SOQL_EXECUTE_BEGIN")
  /\ soqlQueries' = [soqlQueries EXCEPT ![i] = Append(@,
       [ query |-> extractSoqlQuery(CurrentLine(i)),
         startTime |-> extractDuration(CurrentLine(i)),
         endTime |-> Undefined, duration |-> Undefined, rows |-> Undefined,
         aggregations |-> CurrentLine(i).aggr ])]
  /\ Advance(i)
  /\ UNCHANGED << text, lines, pc, nodes, methodStack, rootNodes, timeline,
                  dmlOperations, limits, nodeIdCounter, metrics,
                  insights, log >>

SoqlExecuteEnd(i) ==
  /\ AtLine(i, "SOQL_EXECUTE_END")
  /\ IF Len(soqlQueries[i]) > 0 /\ Pending(Last(soqlQueries[i]))
       THEN LET duration == extractDuration(CurrentLine(i))
                rows == CurrentLine(i).rows
                closed == [Last(soqlQueries[i]) EXCEPT
                             !.endTime = Some(duration),
                             !.duration = Some(duration - Last(soqlQueries[i]).startTime),
                             !.rows = rows]
            IN /\ soqlQueries' = [soqlQueries EXCEPT ![i][Len(soqlQueries[i])] = closed]
               /\ timeline' = [timeline EXCEPT ![i] = Append(@, SoqlEvent(i, closed, rows))]
       ELSE UNCHANGED << soqlQueries, timeline >>
  /\ Advance(i)
  /\ UNCHANGED << text, lines, pc, nodes, methodStack, rootNodes, dmlOperations,
                  limits, nodeIdCounter, metrics,
                  insights, log >>

DmlBegin(i) ==
  /\ AtLine(i, "DML_BEGIN")
  /\ dmlOperations' = [dmlOperations EXCEPT ![i] = Append(@,
       [ operation |-> extractDmlOperation(CurrentLine(i)),
         startTime |-> extractDuration(CurrentLine(i)),
         endTime |-> Undefined, rows |-> Undefined ])]
  /\ Advance(i)
  /\ UNCHANGED << text, lines, pc, nodes, methodStack, rootNodes, timeline,
                  soqlQueries, limits, nodeIdCounter, metrics,
                  insights, log >>

DmlEnd(i) ==
  /\ AtLine(i, "DML_END")
  /\ IF Len(dmlOperations[i]) > 0 /\ Pending(Last(dmlOperations[i]))
       THEN LET rows == CurrentLine(i).rows
                closed == [Last(dmlOperations[i]) EXCEPT
                             !.endTime = Some(extractDuration(CurrentLine(i))),
                             !.rows = rows]
            IN /\ dmlOperations' = [dmlOperations EXCEPT ![i][Len(dmlOperations[i])] = closed]
               /\ timeline' = [timeline EXCEPT ![i] = Append(@, DmlEvent(i, closed, rows))]
       ELSE UNCHANGED << dmlOperations, timeline >>
  /\ Advance(i)
  /\ UNCHANGED << text, lines, pc, nodes, methodStack, rootNodes, soqlQueries,
                  limits, nodeIdCounter, metrics,
                  insights, log >>

\* (a variant in which a category already recorded is not overwritten)
LimitLineFirstWins(i) ==
  /\ pc[i] = "parse" /\ pos[i] < Len(lines[i])
  /\ LineKind(CurrentLine(i)) \in DOMAIN LimitField
  /\ LET line == CurrentLine(i)
         field == LimitField[LineKind(line)]
     IN
       IF IsDefined(line.outOf) /\ ~IsDefined(limits[i][field])
         THEN limits' = [limits EXCEPT ![i][field] =
                Some([used |-> Val(line.outOf)[1], total |-> Val(line.outOf)[2]])]
         ELSE UNCHANGED limits
  /\ Advance(i)
  /\ UNCHANGED << text, lines, pc, nodes, methodStack, rootNodes, timeline,
                  soqlQueries, dmlOperations, nodeIdCounter, metrics,
                  insights, log >>

\* ------------------------------------------------ parseLine: limit summaries
\* The six limit branches: when the label's "out of" pattern matches, the
\* category's entry is set, overwriting an earlier one.
LimitLine(i) ==
  /\ pc[i] = "parse"
  /\ pos[i] < Len(lines[i])
  /\ LineKind(CurrentLine(i)) \in DOMAIN LimitField
  /\ LET line == CurrentLine(i) IN
       IF IsDefined(line.outOf)
         THEN limits' = [limits EXCEPT ![i][LimitField[LineKind(line)]] =
                Some([used |-> Val(line.outOf)[1], total |-> Val(line.outOf)[2]])]
         ELSE UNCHANGED limits
  /\ Advance(i)
  /\ UNCHANGED << text, lines, pc, nodes, methodStack, rootNodes, timeline,
                  soqlQueries, dmlOperations, nodeIdCounter, metrics,
                  insights, log >>

\* (a variant in which such a line ends the pass)
UnrecognizedAborts(i) ==
  /\ AtLine(i, "NONE")
  /\ pc' = [pc EXCEPT ![i] = "done"]
  /\ UNCHANGED << text, lines, pos, nodes, methodStack, rootNodes, timeline,
                  soqlQueries, dmlOperations, limits, nodeIdCounter, metrics,
                  insights, log >>

\* A line that includes none of the markers falls through the else-if chain.
Unrecognized(i) ==
  /\ AtLine(i, "NONE")
  /\ Advance(i)
  /\ UNCHANGED << text, lines, pc, nodes, methodStack, rootNodes, timeline,
                  soqlQueries, dmlOperations, limits, nodeIdCounter, metrics,
                  insights, log >>

\* ------------------------------------------------- parse(): after the forEach
\* "Close any unclosed method nodes": every node on the stack whose endTime is
\* falsy is stamped with the offset of the last line; the stack and the
\* timeline are not touched.  Then parse() returns.
IsOnStack(i, ref) == \E k \in 1..Len(methodStack[i]) : methodStack[i][k] = ref

\* (a variant that reads the first line instead of the last)
LastLineOffsetFirst(i) == extractDuration(lines[i][1])

LastLineOffset(i) == extractDuration(lines[i][Len(lines[i])])

CloseUnclosed(i) ==
  /\ pc[i] = "parse"
  /\ pos[i] = Len(lines[i])
  /\ nodes' = [nodes EXCEPT ![i] =
       [ref \in DOMAIN @ |->
          IF IsOnStack(i, ref) /\ Falsy(@[ref].endTime)
            THEN StampEnd(@[ref], LastLineOffset(i))
            ELSE @[ref]]]
  /\ pc' = [pc EXCEPT ![i] = "done"]
  /\ UNCHANGED << text, lines, pos, methodStack, rootNodes, timeline, soqlQueries,
                  dmlOperations, limits, nodeIdCounter, metrics,
                  insights, log >>

\* ------------------------------------------- LogAnalyzer.calculateMetrics
\* (used / total) * 100 on JavaScript numbers: x/0 is Infinity, 0/0 is NaN;
\* a finite value is kept as the exact fraction num/den.
Percentage(used, total) ==
  IF total = 0
    THEN [kind |-> IF used = 0 THEN "NaN" ELSE "Infinity", num |-> 0, den |-> 0]
    ELSE [kind |-> "finite", num |-> used * 100, den |-> total]

\* if (limits.X) metrics.X = { used, total, percentage }: the object literal
\* sets the percentage key whenever the category is present.
LimitMetric(l) ==
  IF IsDefined(l)
    THEN Some([ used |-> Val(l).used, total |-> Val(l).total,
                percentage |-> Some(Percentage(Val(l).used, Val(l).total)) ])
    ELSE Undefined

\* reduce((acc, x) => acc + x, 0) over a sequence of numbers
RECURSIVE Sum(_)
Sum(q) == IF q = << >> THEN 0 ELSE Head(q) + Sum(Tail(q))

\* (a variant that takes the last position among those with the largest key)
LastMax(keys) ==
  CHOOSE k \in 1..Len(keys) :
    /\ \A j \in 1..Len(keys) : keys[j] <= keys[k]
    /\ \A j \in (k + 1)..Len(keys) : keys[j] < keys[k]

\* Index of element [0] of [...q].sort((a, b) => key(b) - key(a)) for a stable
\* sort, given the keys: the first position among those with the largest key.
FirstMax(keys) ==
  CHOOSE k \in 1..Len(keys) :
    /\ \A j \in 1..Len(keys) : keys[j] <= keys[k]
    /\ \A j \in 1..(k - 1) : keys[j] < keys[k]

\* slowest.query.substring(0, 100) + '...' when longer: the model's query
\* texts are shorter than 100 characters.
SlowestSoql(queries) ==
  LET withDuration == SelectSeq(queries, LAMBDA x : ~Falsy(x.duration)) IN
  IF withDuration = << >> THEN Undefined
  ELSE LET slowest ==
             withDuration[FirstMax([k \in DOMAIN withDuration |->
                                       OrZero(withDuration[k].duration)])]
       IN Some([ query |-> slowest.query, duration |-> OrZero(slowest.duration),
                 rows |-> slowest.rows ])

SlowestMethod(events) ==
  LET methods == SelectSeq(events, LAMBDA e : e.type = "METHOD") IN
  IF methods = << >> THEN Undefined
  ELSE LET slowest == methods[FirstMax([k \in DOMAIN methods |-> methods[k].duration])]
       IN Some([ name |-> slowest.name, duration |-> slowest.duration ])

\* analyzeLog parses with a parser of its own (invocation 1) and computes the
\* metrics from what parse() returned.
CalculateMetrics ==
  /\ pc[1] = "done"
  /\ metrics = Undefined
  /\ metrics' = Some(
       [ limit |-> [c \in Categories |-> LimitMetric(limits[1][c])],
         totalSoqlTime |-> Sum([k \in DOMAIN soqlQueries[1] |-> OrZero(soqlQueries[1][k].duration)]),
         totalDmlTime |->
           Sum([k \in DOMAIN dmlOperations[1] |->
                 OrZero(dmlOperations[1][k].endTime) - dmlOperations[1][k].startTime]),
         slowestSoql |-> SlowestSoql(soqlQueries[1]),
         slowestMethod |-> SlowestMethod(timeline[1]) ])
  /\ UNCHANGED << text, lines, pos, pc, nodes, methodStack, rootNodes, timeline,
                  soqlQueries, dmlOperations, limits, nodeIdCounter, insights, log >>

\* ---------------------------------------------------------- specifications
\* ------------------------------------------------------------- strings
\* The characters of the strings that occur as query texts and as statuses.
Chars(s) ==
  CASE s = "SELECT Id FROM A" ->
        << "S", "E", "L", "E", "C", "T", " ", "I", "d", " ", "F", "R", "O",
           "M", " ", "A" >>
    [] s = "SELECT Id \tFROM A" ->
        << "S", "E", "L", "E", "C", "T", " ", "I", "d", " ", "\t", "F", "R",
           "O", "M", " ", "A" >>
    [] s = "SELECT Id, Name, Email, Phone FROM Contact WHERE Id = '3A'" ->
        << "S", "E", "L", "E", "C", "T", " ", "I", "d", ",", " ", "N", "a",
           "m", "e", ",", " ", "E", "m", "a", "i", "l", ",", " ", "P", "h",
           "o", "n", "e", " ", "F", "R", "O", "M", " ", "C", "o", "n", "t",
           "a", "c", "t", " ", "W", "H", "E", "R", "E", " ", "I", "d", " ",
           "=", " ", "'", "3", "A", "'" >>
    [] s = "SELECT Id, Name, Email, Phone FROM Contact WHERE Id = '3B'" ->
        << "S", "E", "L", "E", "C", "T", " ", "I", "d", ",", " ", "N", "a",
           "m", "e", ",", " ", "E", "m", "a", "i", "l", ",", " ", "P", "h",
           "o", "n", "e", " ", "F", "R", "O", "M", " ", "C", "o", "n", "t",
           "a", "c", "t", " ", "W", "H", "E", "R", "E", " ", "I", "d", " ",
           "=", " ", "'", "3", "B", "'" >>
    [] s = "SELECT Id FROM B" ->
        << "S", "E", "L", "E", "C", "T", " ", "I", "d", " ", "F", "R", "O",
           "M", " ", "B" >>
    [] s = "SELECT Id FROM C" ->
        << "S", "E", "L", "E", "C", "T", " ", "I", "d", " ", "F", "R", "O",
           "M", " ", "C" >>
    [] s = "SELECT Id FROM D" ->
        << "S", "E", "L", "E", "C", "T", " ", "I", "d", " ", "F", "R", "O",
           "M", " ", "D" >>
    [] s = "SELECT Id FROM E" ->
        << "S", "E", "L", "E", "C", "T", " ", "I", "d", " ", "F", "R", "O",
           "M", " ", "E" >>
    [] s = "SELECT Id FROM F" ->
        << "S", "E", "L", "E", "C", "T", " ", "I", "d", " ", "F", "R", "O",
           "M", " ", "F" >>
    [] s = "SELECT Id FROM X" ->
        << "S", "E", "L", "E", "C", "T", " ", "I", "d", " ", "F", "R", "O",
           "M", " ", "X" >>
    [] s = "Unknown Query" ->
        << "U", "n", "k", "n", "o", "w", "n", " ", "Q", "u", "e", "r", "y" >>
    [] s = "" ->
        << >>
    [] s = "Success" ->
        << "S", "u", "c", "c", "e", "s", "s" >>
    [] s = "Error" ->
        << "E", "r", "r", "o", "r" >>
    [] s = "Parse ERROR" ->
        << "P", "a", "r", "s", "e", " ", "E", "R", "R", "O", "R" >>
    [] s = "Failed" ->
        << "F", "a", "i", "l", "e", "d" >>
    [] s = "FAILED: timeout" ->
        << "F", "A", "I", "L", "E", "D", ":", " ", "t", "i", "m", "e", "o",
           "u", "t" >>
    [] s = "Fail" ->
        << "F", "a", "i", "l" >>

\* What \\s matches among the characters above.
Whitespace == {" ", "\t"}

RECURSIVE SkipWhitespace(_)
SkipWhitespace(cs) ==
  IF cs # << >> /\ Head(cs) \in Whitespace THEN SkipWhitespace(Tail(cs)) ELSE cs

\* cs.replace(/\\s+/g, ' '): every maximal run of whitespace becomes one space.
RECURSIVE CollapseWhitespace(_)
CollapseWhitespace(cs) ==
  IF cs = << >> THEN << >>
  ELSE IF Head(cs) \in Whitespace
    THEN << " " >> \o CollapseWhitespace(SkipWhitespace(cs))
    ELSE << Head(cs) >> \o CollapseWhitespace(Tail(cs))

\* cs.substring(0, n)
Substring(cs, n) == SubSeq(cs, 1, IF n < Len(cs) THEN n ELSE Len(cs))

UpperCase ==
  << "A", "B", "C", "D", "E", "F", "G", "H", "I", "J", "K", "L", "M",
     "N", "O", "P", "Q", "R", "S", "T", "U", "V", "W", "X", "Y", "Z" >>

LowerCase ==
  << "a", "b", "c", "d", "e", "f", "g", "h", "i", "j", "k", "l", "m",
     "n", "o", "p", "q", "r", "s", "t", "u", "v", "w", "x", "y", "z" >>

\* cs.toLowerCase()
toLowerCase(cs) ==
  [k \in DOMAIN cs |->
     IF \E u \in DOMAIN UpperCase : UpperCase[u] = cs[k]
       THEN LowerCase[CHOOSE u \in DOMAIN UpperCase : UpperCase[u] = cs[k]]
       ELSE cs[k]]

\* cs.includes(sub)
includes(cs, sub) ==
  \E k \in 0..(Len(cs) - Len(sub)) : SubSeq(cs, k + 1, k + Len(sub)) = sub

\* ------------------------------------------- LogAnalyzer.generateInsights
\* The numbers the rules compare with.
CriticalPercent == 80
HighPercent == 50
DmlPercent == 70
NPlusOneQueries == 10
PatternLength == 50
SlowQueryNs == 1000000000
LargeRows == 1000

\* (a variant that tests percentage >= threshold)
ExceedsOrEqual(p, threshold) ==
  CASE p.kind = "NaN" -> FALSE
    [] p.kind = "Infinity" -> TRUE
    [] OTHER -> p.num >= threshold * p.den

\* percentage > threshold on JavaScript numbers: Infinity exceeds every
\* threshold, NaN exceeds none.
Exceeds(p, threshold) ==
  CASE p.kind = "NaN" -> FALSE
    [] p.kind = "Infinity" -> TRUE
    [] OTHER -> p.num > threshold * p.den

\* percentage.toFixed(0): the nearest integer, the larger one of two equally
\* near; "NaN" and "Infinity" for the two non-finite values.
toFixed0(p) ==
  IF p.kind = "finite" THEN ToString((2 * p.num + p.den) \div (2 * p.den))
  ELSE p.kind

Insight(type, category, title, description, severity) ==
  [ type |-> type, category |-> category, title |-> title,
    description |-> description, severity |-> severity ]

\* "Check for high CPU usage"
CpuRule ==
  IF ~IsDefined(limits[1].cpuTime) THEN << >>
  ELSE LET l == Val(limits[1].cpuTime)
           percentage == Percentage(l.used, l.total)
       IN IF Exceeds(percentage, CriticalPercent)
            THEN << Insight("error", "performance", "Critical CPU Usage",
                            << toFixed0(percentage) >>, "high") >>
          ELSE IF Exceeds(percentage, HighPercent)
            THEN << Insight("warning", "performance", "High CPU Usage",
                            << toFixed0(percentage) >>, "medium") >>
          ELSE << >>

\* "Check for high heap usage"
HeapRule ==
  IF ~IsDefined(limits[1].heapSize) THEN << >>
  ELSE LET l == Val(limits[1].heapSize)
           percentage == Percentage(l.used, l.total)
       IN IF Exceeds(percentage, CriticalPercent)
            THEN << Insight("error", "performance", "Critical Heap Usage",
                            << toFixed0(percentage) >>, "high") >>
          ELSE IF Exceeds(percentage, HighPercent)
            THEN << Insight("warning", "performance", "High Heap Usage",
                            << toFixed0(percentage) >>, "medium") >>
          ELSE << >>

\* q.query.replace(/\\s+/g, ' ').substring(0, 50)
QueryPattern(q) == Substring(CollapseWhitespace(Chars(q.query)), PatternLength)

\* (a variant that compares the query texts as they are)
UniqueTexts(queries) == {Chars(queries[k].query) : k \in DOMAIN queries}

\* new Set(queryPatterns)
UniquePatterns(queries) == {QueryPattern(queries[k]) : k \in DOMAIN queries}

\* "Check for SOQL in loops (N+1 pattern)": size < length / 2 is compared
\* without the division.
NPlusOneRule ==
  LET queries == soqlQueries[1]
      uniquePatterns == UniquePatterns(queries)
  IN IF Len(queries) > NPlusOneQueries
          /\ 2 * Cardinality(uniquePatterns) < Len(queries)
       THEN << Insight("error", "soql", "Potential N+1 Query Pattern",
                       << ToString(Len(queries)),
                          ToString(Cardinality(uniquePatterns)) >>, "high") >>
       ELSE << >>

\* (a variant that tests duration >= 1000000000)
IsSlowOrEqual(q) == ~Falsy(q.duration) /\ Val(q.duration) >= SlowQueryNs

\* q => q.duration && q.duration > 1000000000
IsSlow(q) == ~Falsy(q.duration) /\ Val(q.duration) > SlowQueryNs

\* "Check for slow SOQL queries"
SlowRule ==
  LET slowQueries == SelectSeq(soqlQueries[1], IsSlow)
  IN IF Len(slowQueries) > 0
       THEN << Insight("warning", "soql", "Slow SOQL Queries Found",
                       << ToString(Len(slowQueries)) >>, "medium") >>
       ELSE << >>

\* "Check for approaching SOQL limit"
SoqlLimitRule ==
  IF ~IsDefined(limits[1].soqlQueries) THEN << >>
  ELSE LET l == Val(limits[1].soqlQueries)
           percentage == Percentage(l.used, l.total)
       IN IF Exceeds(percentage, CriticalPercent)
            THEN << Insight("error", "limits", "Approaching SOQL Query Limit",
                            << ToString(l.used), ToString(l.total),
                               toFixed0(percentage) >>, "high") >>
          ELSE IF Exceeds(percentage, HighPercent)
            THEN << Insight("warning", "limits", "High SOQL Query Usage",
                            << ToString(l.used), ToString(l.total) >>, "medium") >>
          ELSE << >>

\* (a variant that tests rows >= 1000)
IsLargeOrEqual(q) == ~Falsy(q.rows) /\ Val(q.rows) >= LargeRows

\* q => q.rows && q.rows > 1000
IsLarge(q) == ~Falsy(q.rows) /\ Val(q.rows) > LargeRows

\* "Check for large result sets"
LargeResultsRule ==
  LET largeResults == SelectSeq(soqlQueries[1], IsLarge)
  IN IF Len(largeResults) > 0
       THEN << Insight("warning", "soql", "Large Query Result Sets",
                       << ToString(Len(largeResults)) >>, "low") >>
       ELSE << >>

\* (a variant with the DML threshold at the critical percentage)
DmlExceedsCritical(percentage) == Exceeds(percentage, CriticalPercent)

\* percentage > 70
DmlExceeds(percentage) == Exceeds(percentage, DmlPercent)

\* "Check for DML limits"
DmlRule ==
  IF ~IsDefined(limits[1].dmlStatements) THEN << >>
  ELSE LET l == Val(limits[1].dmlStatements)
           percentage == Percentage(l.used, l.total)
       IN IF DmlExceeds(percentage)
            THEN << Insight("warning", "limits", "High DML Statement Usage",
                            << ToString(l.used), ToString(l.total) >>, "medium") >>
            ELSE << >>

\* s1 || s2 on optional strings: the empty string is falsy like undefined.
StringOr(o, alt) == IF o = Undefined \/ o = Some("") THEN alt ELSE Val(o)

\* (a variant that compares the status without lowering its case)
StatusFailedCaseSensitive ==
  LET status == Chars(StringOr(log.status, StringOr(log.Status, "")))
  IN \/ includes(status, << "e", "r", "r", "o", "r" >>)
     \/ includes(status, << "f", "a", "i", "l", "e", "d" >>)

\* const status = this.log.status || this.log.Status || '';
\* status.toLowerCase().includes('error') || ...includes('failed')
StatusFailed ==
  LET status == Chars(StringOr(log.status, StringOr(log.Status, "")))
  IN \/ includes(toLowerCase(status), << "e", "r", "r", "o", "r" >>)
     \/ includes(toLowerCase(status), << "f", "a", "i", "l", "e", "d" >>)

\* "Check execution status"
StatusRule ==
  IF StatusFailed
    THEN << Insight("error", "general", "Execution Failed", << >>, "high") >>
    ELSE << >>

\* (a variant that appends the positive insight only to an empty list)
NoMajorIssuesOnlyEmpty(list) == Len(list) = 0

\* insights.length === 0 || insights.every(i => i.severity === 'low')
NoMajorIssues(list) ==
  Len(list) = 0 \/ \A k \in DOMAIN list : list[k].severity = "low"

\* "Positive insight if no major issues"
WithPositiveInsight(list) ==
  IF NoMajorIssues(list)
    THEN Append(list, Insight("success", "general", "Performance Looks Good",
                              << >>, "low"))
    ELSE list

severityOrder == [high |-> 3, medium |-> 2, low |-> 1]

\* (a variant of the comparator with the operands exchanged)
CompareAscending(a, b) == severityOrder[a.severity] - severityOrder[b.severity]

\* (a, b) => severityOrder[b.severity] - severityOrder[a.severity]
Compare(a, b) == severityOrder[b.severity] - severityOrder[a.severity]

\* Array.prototype.sort is a stable sort; on this list of at most nine
\* elements it is computed as an insertion sort: each element in turn is put
\* behind the already sorted elements the comparator does not place after it.
RECURSIVE InsertSorted(_, _)
InsertSorted(sorted, x) ==
  IF sorted = << >> THEN << x >>
  ELSE IF Compare(Last(sorted), x) > 0
    THEN Append(InsertSorted(SubSeq(sorted, 1, Len(sorted) - 1), x), Last(sorted))
    ELSE Append(sorted, x)

RECURSIVE Sort(_)
Sort(list) ==
  IF list = << >> THEN << >>
  ELSE InsertSorted(Sort(SubSeq(list, 1, Len(list) - 1)), Last(list))

\* The insights in the order the rules push them.
PushedInsights ==
  CpuRule \o HeapRule \o NPlusOneRule \o SlowRule \o SoqlLimitRule
          \o LargeResultsRule \o DmlRule \o StatusRule

generateInsights == Sort(WithPositiveInsight(PushedInsights))

\* const insights = this.generateInsights(), after parse() has returned.
GenerateInsights ==
  /\ pc[1] = "done"
  /\ insights = Undefined
  /\ insights' = Some(generateInsights)
  /\ UNCHANGED << text, lines, pos, pc, nodes, methodStack, rootNodes, timeline,
                  soqlQueries, dmlOperations, limits, nodeIdCounter, metrics, log >>

\* One invocation parsing a text of entry/exit lines, then the metrics.
Init == InitWith(TreeTexts)

Next ==
  \/ MethodEntry(1)
  \/ MethodExit(1)
  \/ CodeUnitStarted(1)
  \/ CodeUnitFinished(1)
  \/ CloseUnclosed(1)
  \/ CalculateMetrics

Spec == Init /\ [][Next]_vars

\* One invocation parsing a text of query/mutation begin and end lines.
InitOps == InitWith(OpTexts)

NextOps ==
  \/ SoqlExecuteBegin(1)
  \/ SoqlExecuteEnd(1)
  \/ DmlBegin(1)
  \/ DmlEnd(1)
  \/ CloseUnclosed(1)
  \/ CalculateMetrics

SpecOps == InitOps /\ [][NextOps]_vars

\* One invocation parsing a text of limit-summary lines, then the metrics.
InitLimits == InitWith(LimitTexts)

NextLimits ==
  \/ LimitLine(1)
  \/ Unrecognized(1)
  \/ CloseUnclosed(1)
  \/ CalculateMetrics

SpecLimits == InitLimits /\ [][NextLimits]_vars

\* One step of parse() in invocation i: parseLine on the next line, or the
\* forced closure and return after the last one.
ParseStep(i) ==
  \/ MethodEntry(i)
  \/ MethodExit(i)
  \/ CodeUnitStarted(i)
  \/ CodeUnitFinished(i)
  \/ SoqlExecuteBegin(i)
  \/ SoqlExecuteEnd(i)
  \/ DmlBegin(i)
  \/ DmlEnd(i)
  \/ LimitLine(i)
  \/ Unrecognized(i)
  \/ CloseUnclosed(i)

\* The same text parsed twice, by two parser objects: the second invocation
\* runs after the first has returned (the calls are synchronous).  The text is
\* one of entry/exit lines, or a shorter one of begin/end or of limit lines.
TwiceTexts ==
  TreeTexts \cup SeqsUpTo(OpLines, MaxLines - 1)
            \cup SeqsUpTo(LimitLines, MaxLimitLines - 1)

InitTwice == InitWith(TwiceTexts)

NextTwice ==
  \/ ParseStep(1)
  \/ pc[1] = "done" /\ ParseStep(2)

SpecTwice == InitTwice /\ [][NextTwice]_vars

\* One invocation parsing a text of limit-summary lines among which a line may
\* carry an entry marker in front of a limit label: the else-if chain handles
\* such a line as a method entry.
EntryWithLimitLine ==
  [Line({"METHOD_ENTRY", "Number of SOQL queries:"}, << 1 >>) EXCEPT
     !.sig = "Foo.bar", !.outOf = Some(<< MaxLimit, MaxLimit >>)]

MixedTexts == SeqsUpTo(LimitLines \cup {EntryWithLimitLine}, MaxLimitLines)

InitMixed == InitWith(MixedTexts)

NextMixed ==
  \/ MethodEntry(1)
  \/ LimitLine(1)
  \/ Unrecognized(1)
  \/ CloseUnclosed(1)

SpecMixed == InitMixed /\ [][NextMixed]_vars

\* One invocation parsing a text of lines of every kind: one line of each
\* recognized kind, a line with no marker and a blank line.
AnyLines ==
  {l \in TreeLines : l.parens = << 1 >>}
  \cup {l \in OpLines : l.parens = << 1 >> /\ l.rows \in {Undefined, Some(2)}
                        /\ (LineKind(l) \in {"SOQL_EXECUTE_END", "DML_END"}
                              => IsDefined(l.rows))}
  \cup {[Line({"Maximum CPU time:"}, << >>) EXCEPT
           !.outOf = Some(<< MaxLimit, MaxLimit >>)]}
  \cup {Line({}, << 1 >>), BlankLine}

AnyTexts == SeqsUpTo(AnyLines, MaxLines)

InitAny == InitWith(AnyTexts)

NextAny == ParseStep(1)

SpecAny == InitAny /\ [][NextAny]_vars

\* ---------------------------------------------- analyzeLog: the insights
\* The limit of the summary lines of these runs.
LimitTotal == 10

\* Summary lines of the four categories generateInsights reads, with every
\* usage from 0 to the limit, two lines with a limit of 0, and the line
\* "85 out of 100".
ThresholdPairs ==
  {<< u, LimitTotal >> : u \in 0..LimitTotal}
  \cup {<< 0, 0 >>, << 1, 0 >>, << 85, 100 >>}

ThresholdLabels ==
  {"Maximum CPU time:", "Maximum heap size:", "Number of SOQL queries:",
   "Number of DML statements:"}

ThresholdLines ==
  {[Line({m}, << >>) EXCEPT !.outOf = Some(p)] :
      m \in ThresholdLabels, p \in ThresholdPairs}

MaxThresholdLines == 2

ThresholdTexts == SeqsUpTo(ThresholdLines, MaxThresholdLines)

InitThresholds == InitWith(ThresholdTexts)

\* parse(), then generateInsights(), then calculateMetrics().
NextThresholds ==
  \/ LimitLine(1)
  \/ CloseUnclosed(1)
  \/ GenerateInsights
  \/ IsDefined(insights) /\ CalculateMetrics

SpecThresholds == InitThresholds /\ [][NextThresholds]_vars

\* The query texts of the begin lines: the second differs from the first, and
\* the fourth from the third, only in what the pattern leaves out (a run of
\* whitespace, the characters after the fiftieth).
QueryNames ==
  << "SELECT Id FROM A", "SELECT Id \tFROM A",
     "SELECT Id, Name, Email, Phone FROM Contact WHERE Id = '3A'",
     "SELECT Id, Name, Email, Phone FROM Contact WHERE Id = '3B'",
     "SELECT Id FROM B", "SELECT Id FROM C", "SELECT Id FROM D",
     "SELECT Id FROM E", "SELECT Id FROM F" >>

MaxQueries == 13
MaxClosed == 2

\* End lines: one at offset 0 with no "Rows:" number, and those at an offset of
\* exactly one second or of one second and a nanosecond, with 1000 rows or
\* with 1001.
QueryEndLines ==
  {Line({"SOQL_EXECUTE_END"}, << 0 >>)}
  \cup {[Line({"SOQL_EXECUTE_END"}, << n >>) EXCEPT !.rows = Some(r)] :
          n \in {SlowQueryNs, SlowQueryNs + 1}, r \in {LargeRows, LargeRows + 1}}

\* n begin lines at offset 0 whose texts cycle through the first d query
\* texts; the k-th begin line is followed by the end line ends[k], if any.
RECURSIVE QueryBlocks(_, _, _)
QueryBlocks(n, d, ends) ==
  IF n = 0 THEN << >>
  ELSE QueryBlocks(n - 1, d, ends)
       \o << [Line({"SOQL_EXECUTE_BEGIN"}, << 0 >>) EXCEPT
               !.query = QueryNames[((n - 1) % d) + 1], !.aggr = Some(0)] >>
       \o (IF n <= Len(ends) THEN << ends[n] >> ELSE << >>)

QueryTexts ==
  {QueryBlocks(n, d, ends) :
     n \in 0..MaxQueries, d \in DOMAIN QueryNames,
     ends \in SeqsUpTo(QueryEndLines, MaxClosed)}

InitQueries == InitWith(QueryTexts)

\* parse(), then generateInsights().
NextQueries ==
  \/ SoqlExecuteBegin(1)
  \/ SoqlExecuteEnd(1)
  \/ CloseUnclosed(1)
  \/ GenerateInsights

SpecQueries == InitQueries /\ [][NextQueries]_vars

\* The Log objects: status and Status each absent or present, with statuses
\* that hold "error" or "failed" in some case and statuses that do not.
Logs ==
  [ status : {Undefined} \cup {Some(t) : t \in {"", "Success", "Error", "Parse ERROR",
                                                "Failed", "FAILED: timeout", "Fail"}},
    Status : {Undefined, Some("Success"), Some("FAILED: timeout")} ]

\* The summary line of a category with the given usage, or no line.
UsageLine(m, u) ==
  IF u = Undefined THEN << >>
  ELSE << [Line({m}, << >>) EXCEPT !.outOf = Some(<< Val(u), LimitTotal >>)] >>

\* Summary lines that leave each of the four categories absent, above the
\* half of the limit or at the limit.
LimitBlocks ==
  {UsageLine("Maximum CPU time:", c) \o UsageLine("Maximum heap size:", h)
     \o UsageLine("Number of SOQL queries:", q)
     \o UsageLine("Number of DML statements:", d) :
       c \in {Undefined, Some(LimitTotal \div 2 + 1), Some(LimitTotal)},
       h \in {Undefined, Some(LimitTotal)},
       q \in {Undefined, Some(LimitTotal \div 2 + 1), Some(LimitTotal)},
       d \in {Undefined, Some(LimitTotal)}}

\* No query, twelve queries with three prefixes, and one or twelve queries
\* the first of which is slow, returns many rows, or both.
CombinedQueryBlocks ==
  {QueryBlocks(n, 5, ends) :
     n \in {0, 1, NPlusOneQueries + 2},
     ends \in {<< >>} \cup
       {<< [Line({"SOQL_EXECUTE_END"}, << t >>) EXCEPT !.rows = Some(r)] >> :
          t \in {SlowQueryNs, SlowQueryNs + 1}, r \in {LargeRows, LargeRows + 1}}}

CombinedTexts == {q \o l : q \in CombinedQueryBlocks, l \in LimitBlocks}

InitCombined == InitAnalyzer(CombinedTexts, Logs)

\* parse(), then generateInsights(), then calculateMetrics().
NextCombined ==
  \/ SoqlExecuteBegin(1)
  \/ SoqlExecuteEnd(1)
  \/ LimitLine(1)
  \/ CloseUnclosed(1)
  \/ GenerateInsights
  \/ IsDefined(insights) /\ CalculateMetrics

SpecCombined == InitCombined /\ [][NextCombined]_vars

\* One invocation parsing a text of entry lines of two methods, of exit lines
\* and of the start and the finish of a code unit, then the metrics.
MethodLines ==
  {[Line({"METHOD_ENTRY"}, << n >>) EXCEPT !.sig = g] :
      n \in 0..MaxOffset, g \in {"Foo.bar", "Baz.qux"}}
  \cup {Line({"METHOD_EXIT"}, << n >>) : n \in 0..MaxOffset}
  \cup {[Line({"CODE_UNIT_STARTED"}, << 0 >>) EXCEPT !.lastField = "trigger"],
        Line({"CODE_UNIT_FINISHED"}, << MaxOffset + 1 >>)}

MethodTexts == SeqsUpTo(MethodLines, MaxLines + 1)

InitMethods == InitWith(MethodTexts)

SpecMethods == InitMethods /\ [][Next]_vars

\* Two invocations on different texts of two lines each, whose steps
\* interleave in any order.  A third invocation, on the text of one of the
\* two, has run before them with no other invocation in progress.
OtherLines ==
  {[Line({"METHOD_ENTRY"}, << 1 >>) EXCEPT !.sig = "Foo.bar"],
   [Line({"SOQL_EXECUTE_BEGIN"}, << 1 >>) EXCEPT !.query = "SELECT Id FROM X",
                                                !.aggr = Some(0)],
   [Line({"DML_BEGIN"}, << 1 >>) EXCEPT !.op = "Insert"],
   [Line({"Maximum CPU time:"}, << >>) EXCEPT !.outOf = Some(<< 0, MaxLimit >>)]}

InterleavedTexts ==
  UNION {{<< t1, t2, t1 >>, << t1, t2, t2 >>} :
           t1 \in {<< a, b >> : a, b \in AnyLines} \ {<< a, b >> : a, b \in OtherLines},
           t2 \in {<< a, b >> : a, b \in OtherLines}}

InitInterleaved ==
  /\ text \in InterleavedTexts
  /\ log = DefaultLog
  /\ lines = [i \in Instances |-> SplitLines(text[i])]
  /\ FieldInitialisers

NextInterleaved ==
  \/ ParseStep(3)
  \/ pc[3] = "done" /\ ParseStep(1)
  \/ pc[3] = "done" /\ ParseStep(2)

SpecInterleaved == InitInterleaved /\ [][NextInterleaved]_vars

\* One invocation parsing a text that opens up to two of a method, a query
\* and a mutation and then has one line that includes at most two of the
\* markers, each such line carrying what every branch of the chain would read
\* from it (a name, a query, an operation, a row count, a usage pair).
FullLine(markers) ==
  [Line(markers, << 1 >>) EXCEPT
     !.sig = "Foo.bar", !.query = "SELECT Id FROM X", !.aggr = Some(0),
     !.op = "Insert", !.rows = Some(2), !.outOf = Some(<< MaxLimit, MaxLimit >>)]

TwoMarkerLines ==
  {FullLine(ms) : ms \in {s \in SUBSET {MarkerOrder[k] : k \in DOMAIN MarkerOrder} :
                            Cardinality(s) <= 2}}

OpeningLines ==
  {FullLine({m}) : m \in {"METHOD_ENTRY", "SOQL_EXECUTE_BEGIN", "DML_BEGIN"}}

PriorityTexts ==
  {s \o t : s \in {<< >>} \cup {<< a >> : a \in OpeningLines}
                    \cup {<< a, b >> : a, b \in OpeningLines},
            t \in {<< >>} \cup {<< l >> : l \in TwoMarkerLines}}

InitPriority == InitWith(PriorityTexts)

NextPriority == ParseStep(1)

SpecPriority == InitPriority /\ [][NextPriority]_vars

\* One invocation parsing a text of entry/exit and begin/end lines of the four
\* kinds, each with every offset up to MaxOffset, and an exit line with no
\* parenthesized token (its offset defaults to 0).
TimedLines ==
  {[Line({m}, << n >>) EXCEPT
      !.sig = IF m = "METHOD_ENTRY" THEN "Foo.bar" ELSE "",
      !.lastField = IF m = "CODE_UNIT_STARTED" THEN "trigger" ELSE "",
      !.query = IF m = "SOQL_EXECUTE_BEGIN" THEN "SELECT Id FROM X" ELSE "",
      !.op = IF m = "DML_BEGIN" THEN "Insert" ELSE ""] :
     m \in {MarkerOrder[k] : k \in 1..8}, n \in 0..MaxOffset}
  \cup {Line({"METHOD_EXIT"}, << >>)}

TimedTexts == SeqsUpTo(TimedLines, MaxLines)

InitTimed == InitWith(TimedTexts)

NextTimed ==
  \/ MethodEntry(1)
  \/ MethodExit(1)
  \/ CodeUnitStarted(1)
  \/ CodeUnitFinished(1)
  \/ SoqlExecuteBegin(1)
  \/ SoqlExecuteEnd(1)
  \/ DmlBegin(1)
  \/ DmlEnd(1)
  \/ CloseUnclosed(1)

SpecTimed == InitTimed /\ [][NextTimed]_vars

\* ------------------------------------------------------------ the claims
\* The heap indices of the nodes reachable from the roots through children.
RECURSIVE Descendants(_, _)
Descendants(i, ref) ==
  {ref} \cup UNION {Descendants(i, nodes[i][ref].children[k]) :
                      k \in 1..Len(nodes[i][ref].children)}

TreeRefs(i) == UNION {Descendants(i, rootNodes[i][k]) : k \in 1..Len(rootNodes[i])}

\* The last non-blank line of a text, read off the text itself.
RECURSIVE LastNonBlank(_)
LastNonBlank(t) ==
  IF t[Len(t)].blank THEN LastNonBlank(SubSeq(t, 1, Len(t) - 1)) ELSE t[Len(t)]

EventsWithId(i, id) == {k \in 1..Len(timeline[i]) : timeline[i][k].id = id}

\* C1: when parse() has returned, every node of the returned tree has a
\* defined end_time and duration = end_time - start_time; a node still open at
\* end-of-input (still on the stack) has end_time equal to the offset of the
\* last non-blank line of the text; a text that is a single unmatched entry
\* line yields one root closed at that line's offset with duration 0.
C1_EveryNodeClosed ==
  pc[1] = "done" =>
    /\ \A ref \in TreeRefs(1) :
         LET n == nodes[1][ref] IN
         /\ IsDefined(n.endTime)
         /\ IsDefined(n.duration)
         /\ Val(n.duration) = Val(n.endTime) - n.startTime
         /\ IsOnStack(1, ref) => Val(n.endTime) = extractDuration(LastNonBlank(text))
    /\ TreeRefs(1) = DOMAIN nodes[1]
    /\ (Len(lines[1]) = 1 /\ LineKind(lines[1][1]) = "METHOD_ENTRY") =>
         /\ rootNodes[1] = << 1 >>
         /\ nodes[1][1].endTime = Some(nodes[1][1].startTime)
         /\ nodes[1][1].duration = Some(0)

\* A text whose last line is an exit at offset 0 after two entries at offset
\* MaxOffset: the outer node is force-closed at the last line's offset.
C1_Witness ==
  /\ pc[1] = "done"
  /\ Len(nodes[1]) = 2
  /\ methodStack[1] = << 1 >>
  /\ nodes[1][1].startTime = MaxOffset
  /\ nodes[1][1].endTime = Some(0)
  /\ nodes[1][1].duration = Some(0 - MaxOffset)

\* C2: after parse() has returned the open-node stack is empty.
C2_StackEmptyAfterParse == pc[1] = "done" => methodStack[1] = << >>

\* C3: in the returned ParsedLog every node reachable from the roots has
\* exactly one TimelineEvent carrying its id, and the Method/CodeUnit events
\* are as many as the nodes (those closed by an exit plus those force-closed).
C3_OneEventPerNode ==
  pc[1] = "done" =>
    /\ \A ref \in TreeRefs(1) : Cardinality(EventsWithId(1, nodes[1][ref].id)) = 1
    /\ Cardinality({k \in 1..Len(timeline[1]) :
                      timeline[1][k].type \in {"METHOD", "CODE_UNIT"}})
         = Cardinality(TreeRefs(1))

\* The events of the nodes on the stack, innermost first.
StackPopEvents(i, heap) ==
  [k \in 1..Len(methodStack[i]) |->
     LET n == heap[methodStack[i][Len(methodStack[i]) - k + 1]] IN
     NodeEvent(n, n.type)]

\* C4: the step that ends the parse appends to the timeline the events of the
\* nodes then on the stack, in stack-pop order (innermost first), after the
\* events of the line pass.
C4_ForcedEventsInPopOrder ==
  [][(pc[1] = "parse" /\ pc'[1] = "done") =>
       timeline'[1] = timeline[1] \o StackPopEvents(1, nodes'[1])]_vars

\* C5: no closed node, query, mutation or timeline event has a negative
\* duration, whatever the offsets of the lines.
C5_NoNegativeDuration ==
  /\ \A ref \in DOMAIN nodes[1] :
       IsDefined(nodes[1][ref].duration) => Val(nodes[1][ref].duration) >= 0
  /\ \A k \in DOMAIN timeline[1] : timeline[1][k].duration >= 0
  /\ \A k \in DOMAIN soqlQueries[1] :
       IsDefined(soqlQueries[1][k].duration) => Val(soqlQueries[1][k].duration) >= 0
  /\ \A k \in DOMAIN dmlOperations[1] :
       IsDefined(dmlOperations[1][k].endTime) =>
         Val(dmlOperations[1][k].endTime) - dmlOperations[1][k].startTime >= 0

\* What parse() returns, with the tree unfolded from the roots.
RECURSIVE TreeOf(_, _)
TreeOf(i, ref) ==
  LET n == nodes[i][ref] IN
  [ id |-> n.id, name |-> n.name, startTime |-> n.startTime,
    endTime |-> n.endTime, duration |-> n.duration, depth |-> n.depth,
    type |-> n.type,
    children |-> [k \in 1..Len(n.children) |-> TreeOf(i, n.children[k])] ]

ParsedLog(i) ==
  [ methodTree |-> [k \in 1..Len(rootNodes[i]) |-> TreeOf(i, rootNodes[i][k])],
    timeline |-> timeline[i],
    soqlQueries |-> soqlQueries[i],
    dmlOperations |-> dmlOperations[i],
    limits |-> limits[i] ]

\* C6: two invocations on the same text return structurally identical
\* ParsedLog values (tree shape, ids, names, times, timeline, records, limits).
C6_SameTextSameParsedLog ==
  (pc[1] = "done" /\ pc[2] = "done") => ParsedLog(1) = ParsedLog(2)

\* Both invocations have returned a tree of two nodes and a timeline event.
C6_Witness ==
  /\ pc[1] = "done"
  /\ pc[2] = "done"
  /\ Len(nodes[2]) = 2
  /\ Len(timeline[2]) = 1
  /\ nodes[2][2].id = << "unit", 1 >>

\* C7: in the Metrics, for every limit category present in the ParsedLog the
\* percentage field is present exactly when the category's total is above 0.
C7_PercentageIffTotalPositive ==
  IsDefined(metrics) =>
    \A c \in Categories :
      IsDefined(limits[1][c]) =>
        /\ IsDefined(Val(metrics).limit[c])
        /\ IsDefined(Val(Val(metrics).limit[c]).percentage)
             <=> Val(limits[1][c]).total > 0

\* C8: a Method exit or CodeUnit finished line handled while the stack is
\* empty leaves the stack, the roots, every node, the timeline, the query and
\* mutation lists and the limits unchanged.
C8_ExitOnEmptyStackIsNoOp ==
  [][(/\ AtLine(1, "METHOD_EXIT") \/ AtLine(1, "CODE_UNIT_FINISHED")
      /\ methodStack[1] = << >>
      /\ pos'[1] = pos[1] + 1)
       => UNCHANGED << methodStack, rootNodes, nodes, timeline, soqlQueries,
                       dmlOperations, limits >>]_vars

\* An exit line was handled as the first line after an entry/exit pair had
\* emptied the stack again: the one node and its event are all there is.
C8_Witness ==
  /\ pos[1] = 3
  /\ LineKind(lines[1][3]) = "CODE_UNIT_FINISHED"
  /\ methodStack[1] = << >>
  /\ Len(nodes[1]) = 1
  /\ Len(timeline[1]) = 1

\* An end line of the kind is being handled in this step.
EndStep(kind) == AtLine(1, kind) /\ pos'[1] = pos[1] + 1

\* C9: a Soql (Dml) end line closes the most recent record only if that record
\* has no end_time yet, setting its end_time and rows and appending exactly one
\* event of its kind whose details carry the row count; with an empty list or
\* a most recent record that already has an end_time (0 included) it changes
\* nothing.
C9_EndClosesOnlyPending ==
  [][/\ EndStep("SOQL_EXECUTE_END") =>
          IF Len(soqlQueries[1]) > 0 /\ ~IsDefined(Last(soqlQueries[1]).endTime)
            THEN /\ Len(soqlQueries'[1]) = Len(soqlQueries[1])
                 /\ Last(soqlQueries'[1]).endTime = Some(extractDuration(CurrentLine(1)))
                 /\ Last(soqlQueries'[1]).rows = CurrentLine(1).rows
                 /\ Len(timeline'[1]) = Len(timeline[1]) + 1
                 /\ Last(timeline'[1]).type = "SOQL"
                 /\ Last(timeline'[1]).details = Some(OrZero(CurrentLine(1).rows))
            ELSE UNCHANGED << soqlQueries, timeline >>
     /\ EndStep("DML_END") =>
          IF Len(dmlOperations[1]) > 0 /\ ~IsDefined(Last(dmlOperations[1]).endTime)
            THEN /\ Len(dmlOperations'[1]) = Len(dmlOperations[1])
                 /\ Last(dmlOperations'[1]).endTime = Some(extractDuration(CurrentLine(1)))
                 /\ Last(dmlOperations'[1]).rows = CurrentLine(1).rows
                 /\ Len(timeline'[1]) = Len(timeline[1]) + 1
                 /\ Last(timeline'[1]).type = "DML"
                 /\ Last(timeline'[1]).details = Some(OrZero(CurrentLine(1).rows))
            ELSE UNCHANGED << dmlOperations, timeline >>]_vars

\* The records of a list that have no end_time yet.
OpenCount(q) == Cardinality({k \in 1..Len(q) : ~IsDefined(q[k].endTime)})

\* C10 as stated: at every point of the parse at most one query and at most
\* one mutation record is open.
C10_AtMostOneOpen ==
  /\ OpenCount(soqlQueries[1]) <= 1
  /\ OpenCount(dmlOperations[1]) <= 1

\* The lines handled so far that are begin or end lines of one kind.
Handled(begin, end) ==
  SelectSeq(SubSeq(lines[1], 1, pos[1]), LAMBDA l : LineKind(l) \in {begin, end})

\* The begin lines among them whose next line of the kind is not an end line.
UnansweredBegins(h, begin) ==
  Cardinality({k \in 1..Len(h) :
                 /\ LineKind(h[k]) = begin
                 /\ k < Len(h) => LineKind(h[k + 1]) = begin})

\* C10 (amended): a record is open exactly while the begin line that made it
\* has not been followed, as the next line of its kind, by an end line; so at
\* most one record of a kind is open as long as no two begin lines of the kind
\* follow one another, and each begin line directly followed by another leaves
\* a record that stays open.
C10_OpenAreUnansweredBegins ==
  LET hs == Handled("SOQL_EXECUTE_BEGIN", "SOQL_EXECUTE_END")
      hd == Handled("DML_BEGIN", "DML_END")
  IN /\ OpenCount(soqlQueries[1]) = UnansweredBegins(hs, "SOQL_EXECUTE_BEGIN")
     /\ OpenCount(dmlOperations[1]) = UnansweredBegins(hd, "DML_BEGIN")
     /\ UnansweredBegins(hs, "SOQL_EXECUTE_BEGIN") <= 1 => OpenCount(soqlQueries[1]) <= 1
     /\ UnansweredBegins(hd, "DML_BEGIN") <= 1 => OpenCount(dmlOperations[1]) <= 1

\* Two begin lines and then an end line: the first record is left open, the
\* second is closed.
C10_Witness ==
  /\ pos[1] = 3
  /\ Len(soqlQueries[1]) = 2
  /\ ~IsDefined(soqlQueries[1][1].endTime)
  /\ IsDefined(soqlQueries[1][2].endTime)


\* C11 as stated: after parsing, the entry of each of the six categories is
\* the pair of the last line of the input in which the category's
\* "<label>: <used> out of <total>" pattern matched, and is absent when the
\* pattern matched in no line.
C11_LastMatchingLineWins ==
  pc[1] = "done" =>
    \A m \in DOMAIN LimitField :
      limits[1][LimitField[m]] =
        LET hits == {k \in 1..Len(lines[1]) :
                       m \in lines[1][k].markers /\ IsDefined(lines[1][k].outOf)}
        IN IF hits = {} THEN Undefined
           ELSE LET k == CHOOSE h \in hits : \A g \in hits : g <= h IN
                  Some([used |-> Val(lines[1][k].outOf)[1],
                        total |-> Val(lines[1][k].outOf)[2]])

\* C11 amended: the entry of each of the six categories is the pair of the
\* last line handled as that category's limit line (the label is the first
\* marker of the else-if chain the line includes) in which the pattern
\* matched, and is absent when there is no such line; this holds of the lines
\* handed over so far at every point of the pass, hence of the whole input
\* after parsing.
C11_LastHandledLimitLineWins ==
  \A m \in DOMAIN LimitField :
    limits[1][LimitField[m]] =
      LET hits == {k \in 1..pos[1] :
                     LineKind(lines[1][k]) = m /\ IsDefined(lines[1][k].outOf)}
      IN IF hits = {} THEN Undefined
         ELSE LET k == CHOOSE h \in hits : \A g \in hits : g <= h IN
                Some([used |-> Val(lines[1][k].outOf)[1],
                      total |-> Val(lines[1][k].outOf)[2]])

\* Two lines of one category with different pairs have been parsed and the
\* entry is the pair of the second.
C11_Witness ==
  /\ pc[1] = "done" /\ Len(lines[1]) = 2
  /\ LineKind(lines[1][1]) = "Maximum heap size:"
  /\ LineKind(lines[1][2]) = "Maximum heap size:"
  /\ IsDefined(lines[1][1].outOf) /\ IsDefined(lines[1][2].outOf)
  /\ lines[1][1].outOf # lines[1][2].outOf
  /\ limits[1].heapSize = Some([used |-> Val(lines[1][2].outOf)[1],
                                total |-> Val(lines[1][2].outOf)[2]])


\* C12: parseLine on a line that includes none of the markers leaves the
\* stack, the nodes, the roots, the timeline, the query list, the mutation
\* list and the limits as they were; and no line ends the pass: as long as
\* lines remain, a step is possible, every step consumes exactly the next
\* line and leaves the pass running, so parse() returns only after the last
\* line.
C12_UnrecognizedInertNoAbort ==
  /\ [][ /\ (AtLine(1, "NONE") =>
               UNCHANGED << methodStack, nodes, rootNodes, timeline,
                            soqlQueries, dmlOperations, limits, nodeIdCounter >>)
          /\ ((pc[1] = "parse" /\ pos[1] < Len(lines[1])) =>
               (pos'[1] = pos[1] + 1 /\ pc'[1] = "parse")) ]_vars
  /\ [](/\ (pc[1] = "parse" => (ENABLED ParseStep(1)))
        /\ (pc[1] = "done" => pos[1] = Len(lines[1])))

\* A begin line, a line with no marker and an end line have been parsed: the
\* record the begin line opened was still there for the end line to close.
C12_Witness ==
  /\ pc[1] = "done" /\ Len(lines[1]) = 3
  /\ LineKind(lines[1][1]) = "SOQL_EXECUTE_BEGIN"
  /\ LineKind(lines[1][2]) = "NONE"
  /\ LineKind(lines[1][3]) = "SOQL_EXECUTE_END"
  /\ Len(soqlQueries[1]) = 1 /\ Len(timeline[1]) = 1


\* The positions of the returned list that hold an insight with one of the
\* given titles.
Titled(titles) ==
  {k \in DOMAIN Val(insights) : Val(insights)[k].title \in titles}

UsageTitles ==
  [ cpuTime |-> {"Critical CPU Usage", "High CPU Usage"},
    heapSize |-> {"Critical Heap Usage", "High Heap Usage"},
    soqlQueries |-> {"Approaching SOQL Query Limit", "High SOQL Query Usage"} ]

\* C13: for each of cpuTime, heapSize and soqlQueries present in the limits,
\* the returned list holds exactly one insight of that category, of type
\* error and severity high, when used/total is strictly above 80%; exactly
\* one, of type warning and severity medium, when it is strictly above 50%
\* and at most 80%; and none of that category otherwise.
C13_UsageBands ==
  IsDefined(insights) =>
    \A c \in DOMAIN UsageTitles :
      IsDefined(limits[1][c]) =>
        LET used == Val(limits[1][c]).used
            total == Val(limits[1][c]).total
            found == Titled(UsageTitles[c])
        IN IF used * 100 > 80 * total
             THEN /\ Cardinality(found) = 1
                  /\ \A k \in found : /\ Val(insights)[k].type = "error"
                                       /\ Val(insights)[k].severity = "high"
           ELSE IF used * 100 > 50 * total
             THEN /\ Cardinality(found) = 1
                  /\ \A k \in found : /\ Val(insights)[k].type = "warning"
                                       /\ Val(insights)[k].severity = "medium"
           ELSE found = {}

\* CPU time at exactly 80% gave the warning, and 85 out of 100 queries gave
\* the error/high query-limit insight.
C13_Witness ==
  /\ IsDefined(insights)
  /\ limits[1].cpuTime = Some([used |-> 8, total |-> 10])
  /\ limits[1].soqlQueries = Some([used |-> 85, total |-> 100])
  /\ \E k \in Titled({"High CPU Usage"}) : Val(insights)[k].severity = "medium"
  /\ \E k \in Titled({"Approaching SOQL Query Limit"}) :
        Val(insights)[k].type = "error" /\ Val(insights)[k].severity = "high"

\* The titles of the rules other than the DML rule.
OtherThanDmlTitles ==
  UNION {UsageTitles[c] : c \in DOMAIN UsageTitles}
  \cup {"Potential N+1 Query Pattern", "Slow SOQL Queries Found",
        "Large Query Result Sets", "Execution Failed", "Performance Looks Good"}

\* C14: the returned list holds an insight about the DML statements exactly
\* when limits.dmlStatements is present and used/total is strictly above 70%;
\* it is then a single insight of type warning and severity medium, however
\* high the usage.
C14_DmlBand ==
  IsDefined(insights) =>
    LET found == {k \in DOMAIN Val(insights) :
                    Val(insights)[k].title \notin OtherThanDmlTitles}
        above == /\ IsDefined(limits[1].dmlStatements)
                 /\ Val(limits[1].dmlStatements).used * 100
                      > 70 * Val(limits[1].dmlStatements).total
    IN /\ Cardinality(found) = IF above THEN 1 ELSE 0
       /\ \A k \in found : /\ Val(insights)[k].type = "warning"
                            /\ Val(insights)[k].severity = "medium"
                            /\ Val(insights)[k].title = "High DML Statement Usage"

\* A line with 7 of 10 DML statements was followed by one with 10 of 10: the
\* usage of 100% gave the warning/medium insight.
C14_Witness ==
  /\ IsDefined(insights)
  /\ Len(lines[1]) = 2
  /\ lines[1][1].outOf = Some(<< 7, 10 >>)
  /\ limits[1].dmlStatements = Some([used |-> 10, total |-> 10])
  /\ \E k \in Titled({"High DML Statement Usage"}) :
        Val(insights)[k].type = "warning" /\ Val(insights)[k].severity = "medium"


\* C15: the returned list holds the N+1 insight, once and of type error and
\* severity high, exactly when the parse produced more than 10 queries and
\* the number of distinct 50-character prefixes of their whitespace-collapsed
\* texts is strictly less than half the number of queries.
C15_NPlusOne ==
  IsDefined(insights) =>
    LET queries == soqlQueries[1]
        collapsed == [k \in DOMAIN queries |->
                        CollapseWhitespace(Chars(queries[k].query))]
        prefixes == {[j \in 1..(IF Len(collapsed[k]) < 50 THEN Len(collapsed[k])
                                                          ELSE 50) |->
                        collapsed[k][j]] : k \in DOMAIN queries}
        found == Titled({"Potential N+1 Query Pattern"})
    IN /\ Cardinality(found) =
            IF Len(queries) > 10 /\ 2 * Cardinality(prefixes) < Len(queries)
              THEN 1 ELSE 0
       /\ \A k \in found : /\ Val(insights)[k].type = "error"
                            /\ Val(insights)[k].severity = "high"

\* Thirteen queries with eight different texts, which is not less than half,
\* but six different prefixes, which is: the insight was emitted.
C15_Witness ==
  /\ IsDefined(insights)
  /\ Len(soqlQueries[1]) = 13
  /\ Cardinality({soqlQueries[1][k].query : k \in DOMAIN soqlQueries[1]}) = 8
  /\ Titled({"Potential N+1 Query Pattern"}) # {}

\* C16: the returned list holds the slow-query insight, once, of type warning
\* and severity medium and naming the number of slow queries, exactly when at
\* least one query has a duration above 1,000,000,000; a query with a
\* duration of exactly 1,000,000,000 or with no duration does not count.
C16_SlowQueries ==
  IsDefined(insights) =>
    LET queries == soqlQueries[1]
        slow == {k \in DOMAIN queries :
                   /\ IsDefined(queries[k].duration)
                   /\ Val(queries[k].duration) > 1000000000}
        found == Titled({"Slow SOQL Queries Found"})
    IN /\ Cardinality(found) = IF slow # {} THEN 1 ELSE 0
       /\ \A k \in found :
            /\ Val(insights)[k].type = "warning"
            /\ Val(insights)[k].severity = "medium"
            /\ Val(insights)[k].description = << ToString(Cardinality(slow)) >>

\* Of three queries one took exactly a second, one a nanosecond more and one
\* was never closed: the insight names one query.
C16_Witness ==
  /\ IsDefined(insights)
  /\ Len(soqlQueries[1]) = 3
  /\ soqlQueries[1][1].duration = Some(SlowQueryNs)
  /\ soqlQueries[1][2].duration = Some(SlowQueryNs + 1)
  /\ soqlQueries[1][3].duration = Undefined
  /\ \E k \in Titled({"Slow SOQL Queries Found"}) :
        Val(insights)[k].description = << "1" >>

\* C17: the returned list holds the large-result-set insight, once, of type
\* warning and severity low and naming the number of such queries, exactly
\* when at least one query has more than 1000 rows.
C17_LargeResults ==
  IsDefined(insights) =>
    LET queries == soqlQueries[1]
        large == {k \in DOMAIN queries :
                    /\ IsDefined(queries[k].rows)
                    /\ Val(queries[k].rows) > 1000}
        found == Titled({"Large Query Result Sets"})
    IN /\ Cardinality(found) = IF large # {} THEN 1 ELSE 0
       /\ \A k \in found :
            /\ Val(insights)[k].type = "warning"
            /\ Val(insights)[k].severity = "low"
            /\ Val(insights)[k].description = << ToString(Cardinality(large)) >>

\* Of two queries one returned exactly 1000 rows and one 1001: the insight
\* names one query.
C17_Witness ==
  /\ IsDefined(insights)
  /\ Len(soqlQueries[1]) = 2
  /\ soqlQueries[1][1].rows = Some(LargeRows)
  /\ soqlQueries[1][2].rows = Some(LargeRows + 1)
  /\ \E k \in Titled({"Large Query Result Sets"}) :
        Val(insights)[k].description = << "1" >>


\* The status string of the run: log.status, or log.Status when that one is
\* absent or empty, or the empty string.
EffectiveStatus ==
  IF log.status \notin {Undefined, Some("")} THEN Val(log.status)
  ELSE IF log.Status \notin {Undefined, Some("")} THEN Val(log.Status)
  ELSE ""

\* C18: the returned list holds the "Execution Failed" insight, once and of
\* type error and severity high, exactly when the status string holds "error"
\* or "failed" in whatever case; an absent or empty status gives none.
C18_ExecutionFailed ==
  IsDefined(insights) =>
    LET lowered == toLowerCase(Chars(EffectiveStatus))
        failed == \/ \E k \in 1..Len(lowered) - 4 :
                       SubSeq(lowered, k, k + 4) = << "e", "r", "r", "o", "r" >>
                  \/ \E k \in 1..Len(lowered) - 5 :
                       SubSeq(lowered, k, k + 5) = << "f", "a", "i", "l", "e", "d" >>
        found == Titled({"Execution Failed"})
    IN /\ Cardinality(found) = IF failed THEN 1 ELSE 0
       /\ \A k \in found : /\ Val(insights)[k].type = "error"
                            /\ Val(insights)[k].severity = "high"
       /\ EffectiveStatus \in {"Error", "Parse ERROR", "Failed", "FAILED: timeout"}
            => found # {}
       /\ EffectiveStatus \in {"", "Success", "Fail"} => found = {}

\* A status of "Parse ERROR" gave the insight.
C18_Witness ==
  /\ IsDefined(insights)
  /\ log.status = Some("Parse ERROR")
  /\ \E k \in Titled({"Execution Failed"}) :
        Val(insights)[k].type = "error" /\ Val(insights)[k].severity = "high"

\* C19: the returned list holds the "Performance Looks Good" insight, of type
\* success and severity low, once when every other insight of the list is of
\* severity low (or there is none) and not at all when another insight is of
\* severity medium or high; so the list is never empty and never holds a
\* success insight beside one of severity medium or high.
C19_PositiveInsight ==
  IsDefined(insights) =>
    LET list == Val(insights)
        good == Titled({"Performance Looks Good"})
        others == DOMAIN list \ good
    IN /\ Cardinality(good) =
            IF \A k \in others : list[k].severity = "low" THEN 1 ELSE 0
       /\ \A k \in good : list[k].type = "success" /\ list[k].severity = "low"
       /\ \A k \in others : list[k].type # "success"
       /\ Len(list) > 0
       /\ ~ /\ \E k \in DOMAIN list : list[k].type = "success"
            /\ \E k \in DOMAIN list : list[k].severity \in {"medium", "high"}

\* The only rule that fired gave an insight of severity low, and the positive
\* insight stands behind it.
C19_Witness ==
  /\ IsDefined(insights)
  /\ Len(Val(insights)) = 2
  /\ Val(insights)[1].title = "Large Query Result Sets"
  /\ Val(insights)[2].title = "Performance Looks Good"

\* The place of a title in the order in which the rules are evaluated.
RuleOrder ==
  [ t \in OtherThanDmlTitles \cup {"High DML Statement Usage"} |->
      CASE t \in UsageTitles.cpuTime -> 1
        [] t \in UsageTitles.heapSize -> 2
        [] t = "Potential N+1 Query Pattern" -> 3
        [] t = "Slow SOQL Queries Found" -> 4
        [] t \in UsageTitles.soqlQueries -> 5
        [] t = "Large Query Result Sets" -> 6
        [] t = "High DML Statement Usage" -> 7
        [] t = "Execution Failed" -> 8
        [] t = "Performance Looks Good" -> 9 ]

\* C20: in the returned list no insight stands before one of higher severity
\* (high before medium before low), and of two insights of equal severity the
\* one whose rule is evaluated first stands first.
C20_SortedBySeverityStable ==
  IsDefined(insights) =>
    LET list == Val(insights)
        rank == [high |-> 3, medium |-> 2, low |-> 1]
    IN \A j, k \in DOMAIN list :
         j < k =>
           /\ rank[list[j].severity] >= rank[list[k].severity]
           /\ list[j].severity = list[k].severity
                => RuleOrder[list[j].title] < RuleOrder[list[k].title]

\* Every rule fired, the CPU rule with a warning: the four high insights of
\* the later rules stand before it in rule order, the low one stands last.
C20_Witness ==
  /\ IsDefined(insights)
  /\ Len(Val(insights)) = 8
  /\ Val(insights)[1].title = "Critical Heap Usage"
  /\ Val(insights)[2].title = "Potential N+1 Query Pattern"
  /\ Val(insights)[5].title = "High CPU Usage"
  /\ Val(insights)[6].title = "Slow SOQL Queries Found"
  /\ Val(insights)[8].title = "Large Query Result Sets"


\* C21: in the returned metrics totalSoqlTime is the sum of the durations of
\* the queries that have one, and totalDmlTime is the sum of endTime -
\* startTime over the mutation operations that have an endTime; an operation
\* with no endTime adds nothing, and both are 0 when there are no records.
C21_Totals ==
  IsDefined(metrics) =>
    /\ Val(metrics).totalSoqlTime =
         Sum([k \in DOMAIN soqlQueries[1] |->
                IF IsDefined(soqlQueries[1][k].duration)
                  THEN Val(soqlQueries[1][k].duration) ELSE 0])
    /\ Val(metrics).totalDmlTime =
         Sum([k \in DOMAIN dmlOperations[1] |->
                IF IsDefined(dmlOperations[1][k].endTime)
                  THEN Val(dmlOperations[1][k].endTime)
                         - dmlOperations[1][k].startTime
                  ELSE 0])

\* C22: slowestSoql of the returned metrics is the first, in the query list,
\* of the queries with the largest duration among those that have a duration
\* (a duration of 0 is one); it is absent only when no query has a duration.
C22_SlowestSoql ==
  IsDefined(metrics) =>
    LET queries == soqlQueries[1]
        having == {k \in DOMAIN queries : IsDefined(queries[k].duration)}
    IN IF having = {} THEN Val(metrics).slowestSoql = Undefined
       ELSE LET k == CHOOSE h \in having :
                       /\ \A g \in having :
                            Val(queries[g].duration) <= Val(queries[h].duration)
                       /\ \A g \in having :
                            g < h => Val(queries[g].duration) < Val(queries[h].duration)
            IN /\ IsDefined(Val(metrics).slowestSoql)
               /\ Val(Val(metrics).slowestSoql).duration = Val(queries[k].duration)
               /\ Val(Val(metrics).slowestSoql).query = queries[k].query
               /\ Val(Val(metrics).slowestSoql).rows = queries[k].rows


\* C23: slowestMethod of the returned metrics is the first, in the timeline,
\* of the events of type METHOD with the largest duration, and is absent
\* exactly when the timeline holds no event of type METHOD.
C23_SlowestMethod ==
  IsDefined(metrics) =>
    LET events == timeline[1]
        methods == {k \in DOMAIN events : events[k].type = "METHOD"}
    IN IF methods = {} THEN Val(metrics).slowestMethod = Undefined
       ELSE LET k == CHOOSE h \in methods :
                       /\ \A g \in methods : events[g].duration <= events[h].duration
                       /\ \A g \in methods :
                            g < h => events[g].duration < events[h].duration
            IN Val(metrics).slowestMethod =
                 Some([name |-> events[k].name, duration |-> events[k].duration])

\* Two METHOD events of different names and the same duration, and a longer
\* event of a code unit: the metrics name the first METHOD event.
C23_Witness ==
  /\ IsDefined(metrics)
  /\ \E j, k \in DOMAIN timeline[1] :
        /\ j < k
        /\ timeline[1][j].type = "METHOD" /\ timeline[1][k].type = "METHOD"
        /\ timeline[1][j].duration = timeline[1][k].duration
        /\ timeline[1][j].name # timeline[1][k].name
        /\ Val(Val(metrics).slowestMethod).name = timeline[1][j].name


\* The fields of one parser object.
ParserState(i) ==
  << pos[i], pc[i], nodes[i], methodStack[i], rootNodes[i], timeline[i],
     soqlQueries[i], dmlOperations[i], limits[i], nodeIdCounter[i] >>

\* C24: of two invocations on different texts whose steps interleave, each
\* returns the ParsedLog that an invocation on its text returns when it runs
\* with no other invocation in progress, and no step of one invocation
\* changes a field of the other.
C24_InterleavedAsAlone ==
  /\ [](\A i \in {1, 2} :
          (pc[i] = "done" /\ text[i] = text[3]) => ParsedLog(i) = ParsedLog(3))
  /\ [][\A i \in {1, 2} :
          ParserState(i)' # ParserState(i) =>
            \A j \in Instances \ {i} : ParserState(j)' = ParserState(j)]_vars

\* The first invocation has returned a tree and a timeline event while the
\* second, which has created a node of its own, is between its two lines.
C24_Witness ==
  /\ pc[1] = "done" /\ text[3] = text[1]
  /\ Len(nodes[1]) > 0 /\ Len(timeline[1]) > 0
  /\ pc[2] = "parse" /\ pos[2] = 1 /\ Len(nodes[2]) = 1
  /\ ParsedLog(1) = ParsedLog(3)


\* parseLine is being called on an entry line of either hierarchical kind.
AtEntryLine ==
  /\ pc[1] = "parse" /\ pos[1] < Len(lines[1])
  /\ CurrentLine(1).markers \in {{"METHOD_ENTRY"}, {"CODE_UNIT_STARTED"}}

\* C25: an entry line creates one node whose depth is the length the stack
\* had, appends it as the last child of the node that was on top of the
\* stack, or as the last root when the stack was empty, and pushes it; so at
\* every point each root has depth 0, each child has its parent's depth plus
\* 1, and roots and children stand in the order in which they were created.
C25_DepthAndOrder ==
  /\ [][AtEntryLine =>
          LET new == Len(nodes[1]) + 1 IN
          /\ Len(nodes'[1]) = new
          /\ nodes'[1][new].depth = Len(methodStack[1])
          /\ nodes'[1][new].children = << >>
          /\ methodStack'[1] = Append(methodStack[1], new)
          /\ IF Len(methodStack[1]) = 0
               THEN /\ rootNodes'[1] = Append(rootNodes[1], new)
                    /\ \A r \in 1..Len(nodes[1]) : nodes'[1][r] = nodes[1][r]
               ELSE LET top == methodStack[1][Len(methodStack[1])] IN
                    /\ rootNodes'[1] = rootNodes[1]
                    /\ nodes'[1][top].children = Append(nodes[1][top].children, new)
                    /\ \A r \in 1..Len(nodes[1]) :
                         r # top => nodes'[1][r] = nodes[1][r]]_vars
  /\ [](/\ \A k \in 1..Len(rootNodes[1]) :
             /\ nodes[1][rootNodes[1][k]].depth = 0
             /\ k > 1 => rootNodes[1][k - 1] < rootNodes[1][k]
        /\ \A r \in 1..Len(nodes[1]) :
             \A k \in 1..Len(nodes[1][r].children) :
               /\ nodes[1][nodes[1][r].children[k]].depth = nodes[1][r].depth + 1
               /\ k > 1 => nodes[1][r].children[k - 1] < nodes[1][r].children[k]
               /\ k > 1 => nodes[1][nodes[1][r].children[k - 1]].id[2]
                             < nodes[1][nodes[1][r].children[k]].id[2])

\* A root with two children, the second opened after the first was closed.
C25_Witness ==
  /\ pc[1] = "done"
  /\ Len(rootNodes[1]) = 1
  /\ Len(nodes[1]) = 3
  /\ nodes[1][1].children = << 2, 3 >>
  /\ nodes[1][2].depth = 1 /\ nodes[1][3].depth = 1
  /\ Len(timeline[1]) = 1


\* parseLine is being called on an exit line of either hierarchical kind.
AtExitLine ==
  /\ pc[1] = "parse" /\ pos[1] < Len(lines[1])
  /\ CurrentLine(1).markers \in {{"METHOD_EXIT"}, {"CODE_UNIT_FINISHED"}}

\* C26: an exit line met with a non-empty stack pops the top node and no
\* other, sets that node's endTime to the offset of the line and its duration
\* to endTime - startTime, and appends one TimelineEvent with the node's id,
\* name, startTime, endTime, duration and depth; the timeline only grows at
\* its end, so the event of a nested node stands before the event of a node
\* that encloses it.
C26_ExitPopsTop ==
  /\ [][/\ (AtExitLine /\ Len(methodStack[1]) > 0) =>
             LET top == methodStack[1][Len(methodStack[1])]
                 offset == Head(CurrentLine(1).parens)
                 event == timeline'[1][Len(timeline'[1])]
             IN /\ methodStack'[1] = SubSeq(methodStack[1], 1, Len(methodStack[1]) - 1)
                /\ nodes'[1][top].endTime = Some(offset)
                /\ nodes'[1][top].duration = Some(offset - nodes[1][top].startTime)
                /\ \A r \in 1..Len(nodes[1]) : r # top => nodes'[1][r] = nodes[1][r]
                /\ Len(timeline'[1]) = Len(timeline[1]) + 1
                /\ event.id = nodes[1][top].id
                /\ event.name = nodes[1][top].name
                /\ event.startTime = nodes[1][top].startTime
                /\ event.endTime = offset
                /\ event.duration = offset - nodes[1][top].startTime
                /\ event.depth = nodes[1][top].depth
          /\ SubSeq(timeline'[1], 1, Len(timeline[1])) = timeline[1]]_vars
  /\ [](\A j, k \in DOMAIN timeline[1] :
          \A a, b \in 1..Len(nodes[1]) :
            ( /\ timeline[1][j].id = nodes[1][a].id
              /\ timeline[1][k].id = nodes[1][b].id
              /\ a # b /\ a \in Descendants(1, b) ) => j < k)

\* A nested node and then its enclosing node were closed by exit lines: the
\* event of the nested node stands first.
C26_Witness ==
  /\ Len(timeline[1]) = 2
  /\ timeline[1][1].id = nodes[1][2].id /\ timeline[1][1].depth = 1
  /\ timeline[1][2].id = nodes[1][1].id /\ timeline[1][2].depth = 0
  /\ nodes[1][1].children = << 2 >>


\* The marker of a line that comes first in the order method entry, method
\* exit, code unit started, code unit finished, query begin, query end,
\* mutation begin, mutation end, then the six limit labels; "NONE" when the
\* line includes none.
C27_Priority ==
  << "METHOD_ENTRY", "METHOD_EXIT", "CODE_UNIT_STARTED", "CODE_UNIT_FINISHED",
     "SOQL_EXECUTE_BEGIN", "SOQL_EXECUTE_END", "DML_BEGIN", "DML_END",
     "Number of SOQL queries:", "Number of query rows:", "Maximum CPU time:",
     "Maximum heap size:", "Number of DML statements:", "Number of DML rows:" >>

C27_Earliest(line) ==
  LET hits == {k \in DOMAIN C27_Priority : C27_Priority[k] \in line.markers}
  IN IF hits = {} THEN "NONE"
     ELSE C27_Priority[CHOOSE k \in hits : \A h \in hits : k <= h]

\* C27: a call of parseLine has the effect of exactly one branch, that of the
\* earliest marker the line includes, whatever other marker the line includes
\* as well: an entry pushes one node of its kind and touches neither the
\* timeline nor the queries, mutations and limits; an exit pops one node and
\* pushes one event of its kind (or does nothing on an empty stack) and
\* touches neither the queries, mutations and limits nor the counter; a begin
\* appends one record to its own list and touches nothing else; an end
\* touches only the last record of its own list and adds at most one event of
\* its own kind; a limit label sets only its own category; a line with no
\* marker changes nothing.
C27_FirstMarkerOnly ==
  [][ (pc[1] = "parse" /\ pos[1] < Len(lines[1])) =>
        LET line == lines[1][pos[1] + 1]
            kind == C27_Earliest(line)
            grown == Len(timeline'[1]) = Len(timeline[1]) + 1
            event == timeline'[1][Len(timeline'[1])]
        IN
        /\ pos'[1] = pos[1] + 1
        /\ kind \in {"METHOD_ENTRY", "CODE_UNIT_STARTED"} =>
             /\ UNCHANGED << timeline, soqlQueries, dmlOperations, limits >>
             /\ Len(methodStack'[1]) = Len(methodStack[1]) + 1
             /\ Len(nodes'[1]) = Len(nodes[1]) + 1
             /\ nodes'[1][Len(nodes'[1])].type =
                  (IF kind = "METHOD_ENTRY" THEN "METHOD" ELSE "CODE_UNIT")
             /\ nodeIdCounter'[1] = nodeIdCounter[1] + 1
        /\ kind \in {"METHOD_EXIT", "CODE_UNIT_FINISHED"} =>
             /\ UNCHANGED << soqlQueries, dmlOperations, limits, nodeIdCounter,
                             rootNodes >>
             /\ Len(nodes'[1]) = Len(nodes[1])
             /\ IF Len(methodStack[1]) > 0
                  THEN /\ Len(methodStack'[1]) = Len(methodStack[1]) - 1
                       /\ grown
                       /\ event.type =
                            (IF kind = "METHOD_EXIT" THEN "METHOD" ELSE "CODE_UNIT")
                  ELSE UNCHANGED << methodStack, nodes, timeline >>
        /\ kind = "SOQL_EXECUTE_BEGIN" =>
             /\ UNCHANGED << methodStack, nodes, rootNodes, timeline,
                             dmlOperations, limits, nodeIdCounter >>
             /\ Len(soqlQueries'[1]) = Len(soqlQueries[1]) + 1
             /\ SubSeq(soqlQueries'[1], 1, Len(soqlQueries[1])) = soqlQueries[1]
        /\ kind = "SOQL_EXECUTE_END" =>
             /\ UNCHANGED << methodStack, nodes, rootNodes, dmlOperations,
                             limits, nodeIdCounter >>
             /\ Len(soqlQueries'[1]) = Len(soqlQueries[1])
             /\ \/ UNCHANGED << soqlQueries, timeline >>
                \/ grown /\ event.type = "SOQL"
        /\ kind = "DML_BEGIN" =>
             /\ UNCHANGED << methodStack, nodes, rootNodes, timeline,
                             soqlQueries, limits, nodeIdCounter >>
             /\ Len(dmlOperations'[1]) = Len(dmlOperations[1]) + 1
             /\ SubSeq(dmlOperations'[1], 1, Len(dmlOperations[1])) = dmlOperations[1]
        /\ kind = "DML_END" =>
             /\ UNCHANGED << methodStack, nodes, rootNodes, soqlQueries,
                             limits, nodeIdCounter >>
             /\ Len(dmlOperations'[1]) = Len(dmlOperations[1])
             /\ \/ UNCHANGED << dmlOperations, timeline >>
                \/ grown /\ event.type = "DML"
        /\ kind \in DOMAIN LimitField =>
             /\ UNCHANGED << methodStack, nodes, rootNodes, timeline,
                             soqlQueries, dmlOperations, nodeIdCounter >>
             /\ \A c \in Categories \ {LimitField[kind]} :
                  limits'[1][c] = limits[1][c]
             /\ IsDefined(line.outOf) =>
                  limits'[1][LimitField[kind]] =
                    Some([used |-> Val(line.outOf)[1], total |-> Val(line.outOf)[2]])
        /\ kind = "NONE" =>
             UNCHANGED << methodStack, nodes, rootNodes, timeline, soqlQueries,
                          dmlOperations, limits, nodeIdCounter >>
    ]_vars

\* A method and a query are open and a line that includes both the method
\* exit marker and the query end marker has been handled: the method is
\* closed, the query is still open.
C27_Witness ==
  /\ pc[1] = "done" /\ Len(lines[1]) = 3
  /\ lines[1][1].markers = {"METHOD_ENTRY"}
  /\ lines[1][2].markers = {"SOQL_EXECUTE_BEGIN"}
  /\ lines[1][3].markers = {"METHOD_EXIT", "SOQL_EXECUTE_END"}
  /\ methodStack[1] = << >>
  /\ Len(timeline[1]) = 1 /\ timeline[1][1].type = "METHOD"
  /\ Len(soqlQueries[1]) = 1 /\ soqlQueries[1][1].endTime = Undefined


\* The offsets parseLine extracts from the successive lines the constructor
\* kept (the non-blank ones) do not decrease.
C28_Monotone ==
  \A k \in 1..(Len(lines[1]) - 1) :
    extractDuration(lines[1][k]) <= extractDuration(lines[1][k + 1])

\* C28: when the offsets extracted from the successive non-blank lines do not
\* decrease, every node, query and mutation that has an end time, and every
\* timeline event, has a duration (end minus start) of at least 0; a closed
\* child starts no earlier and ends no later than its closed parent; and
\* when parse() has returned every node is closed, the nodes closed by the
\* final pass over the stack included.
C28_MonotoneNonNegative ==
  C28_Monotone =>
    /\ \A r \in DOMAIN nodes[1] :
         LET node == nodes[1][r] IN
         /\ IsDefined(node.endTime) =>
              /\ IsDefined(node.duration)
              /\ Val(node.duration) >= 0
              /\ Val(node.endTime) >= node.startTime
         /\ (IsDefined(node.endTime) /\ IsDefined(node.parent)
               /\ IsDefined(nodes[1][Val(node.parent)].endTime)) =>
              /\ nodes[1][Val(node.parent)].startTime <= node.startTime
              /\ Val(node.endTime) <= Val(nodes[1][Val(node.parent)].endTime)
         /\ pc[1] = "done" => IsDefined(node.endTime)
    /\ \A k \in DOMAIN soqlQueries[1] :
         IsDefined(soqlQueries[1][k].endTime) =>
           /\ IsDefined(soqlQueries[1][k].duration)
           /\ Val(soqlQueries[1][k].duration) >= 0
    /\ \A k \in DOMAIN dmlOperations[1] :
         IsDefined(dmlOperations[1][k].endTime) =>
           Val(dmlOperations[1][k].endTime) - dmlOperations[1][k].startTime >= 0
    /\ \A k \in DOMAIN timeline[1] :
         /\ timeline[1][k].duration >= 0
         /\ timeline[1][k].endTime >= timeline[1][k].startTime

\* Offsets 0, 0, 1: a method opened at 0, a nested method opened at 0 and
\* closed by an exit at 1, and the outer method closed at 1 by the final
\* pass over the stack.
C28_Witness ==
  /\ pc[1] = "done" /\ C28_Monotone /\ Len(lines[1]) = 3
  /\ Len(nodes[1]) = 2 /\ nodes[1][2].parent = Some(1)
  /\ methodStack[1] = << 1 >>
  /\ nodes[1][2].duration = Some(1) /\ nodes[1][1].duration = Some(1)
  /\ Len(timeline[1]) = 1 /\ timeline[1][1].duration = 1


\* C29: every timeline event of type METHOD or CODE_UNIT has the type of the
\* node whose id it carries.
C29_EventKindIsNodeKind ==
  \A k \in DOMAIN timeline[1] :
    timeline[1][k].type \in {"METHOD", "CODE_UNIT"} =>
      \A r \in DOMAIN nodes[1] :
        nodes[1][r].id = timeline[1][k].id => timeline[1][k].type = nodes[1][r].type


\* C30: in every state of a parser invocation, no two nodes have the same
\* id, the nodes being numbered 0, 1, 2, ... in the order of their creation
\* whatever their kind, and no two events of the timeline have the same id,
\* the query and mutation events (whose ids hold the length the timeline had
\* when they were appended) included.
C30_DistinctIds ==
  /\ \A r, s \in DOMAIN nodes[1] :
       r # s => nodes[1][r].id # nodes[1][s].id
  /\ \A r \in DOMAIN nodes[1] : nodes[1][r].id[2] = r - 1
  /\ \A j, k \in DOMAIN timeline[1] :
       j # k => timeline[1][j].id # timeline[1][k].id

\* Two events have been appended for queries, the second when the timeline
\* already held the first: their ids hold the lengths 0 and 1.
C30_Witness ==
  /\ pc[1] = "done"
  /\ Len(timeline[1]) = 2
  /\ timeline[1][1].id = << "soql", 0 >>
  /\ timeline[1][2].id = << "soql", 1 >>

====
